---- MODULE Spec2Model ----
(***************************************************************************)
(* Model of the DAO dashboard backend: the case-file ("DAO") and task      *)
(* routes of dao-simple.ts and tasks.ts over DaoService.  Every HTTP       *)
(* request is a small process that advances from one await to the next;    *)
(* several requests may be in flight and interleave at those awaits.       *)
(*                                                                         *)
(* Strings the code inspects character by character (sanitizeString, the   *)
(* sequence-number pattern) are sequences of one-character strings.        *)
(*                                                                         *)
(* Record constructors list their fields in one order throughout (the      *)
(* order in which the field names first appear in this module).            *)
(***************************************************************************)
EXTENDS Integers, Sequences, FiniteSets, TLC

\* ------------------------------------------------------------- bounds
\* most case files the store holds
MaxDaos == 2
\* most tasks add-task lets one case file grow to
MaxTasks == 3
\* add-task stops once a case file holds a task with this id
MaxTaskId == 4
\* last value of the millisecond clock
MaxClock == 1
\* number of times the calendar year may roll over
MaxYearTicks == 1
\* last value of the clock while case files are listed
MaxListClock == 2
\* most members a dialog lets a team grow to
MaxTeam == 2
\* most members typed into a dialog
MaxNewMembers == 1
\* most comment mutations the server applies
MaxMutations == 2
\* most GET requests the comment service sends
MaxFetches == 3
\* largest maxRetries option of SecureFetch.fetch
MaxRetries == 2

\* the request slots: at most two requests are in flight at the same time
Requests == {1, 2}

\* the slot of a specification whose requests run one after the other
Sequential == {1}

\* ------------------------------------------------------------- values
\* JavaScript undefined for an optional string property
Undefined == <<"undefined">>
\* JavaScript null for task.progress
Null == -1
\* absent timestamp / actor
NoTime == -1
NoActor == "undefined"

Some(x) == <<x>>
None == <<>>

\* ------------------------------------------------------------- strings
DigitChars == <<"0", "1", "2", "3", "4", "5", "6", "7", "8", "9">>

IsDigit(c) == \E i \in 1..10 : DigitChars[i] = c

DigitVal(c) == (CHOOSE i \in 1..10 : DigitChars[i] = c) - 1

AllDigits(s) == \A i \in 1..Len(s) : IsDigit(s[i])

RECURSIVE ParseInt(_)
\* parseInt(n, 10) of a string of decimal digits
ParseInt(s) ==
  IF s = <<>> THEN 0
  ELSE 10 * ParseInt(SubSeq(s, 1, Len(s) - 1)) + DigitVal(s[Len(s)])

RECURSIVE ToStr(_)
\* Number.prototype.toString() of a natural number
ToStr(n) ==
  IF n < 10 THEN <<DigitChars[n + 1]>>
  ELSE ToStr(n \div 10) \o <<DigitChars[(n % 10) + 1]>>

RECURSIVE PadStart(_, _, _)
\* String.prototype.padStart(width, c)
PadStart(s, width, c) ==
  IF Len(s) >= width THEN s ELSE PadStart(<<c>> \o s, width, c)

StartsWith(s, p) == Len(s) >= Len(p) /\ SubSeq(s, 1, Len(p)) = p

Includes(s, p) ==
  \E i \in 1..(Len(s) - Len(p) + 1) : SubSeq(s, i, i + Len(p) - 1) = p

RECURSIVE StripTags(_)
\* input.replace(/<[^>]*>/g, "")
StripTags(s) ==
  IF s = <<>> THEN <<>>
  ELSE IF Head(s) = "<" /\ \E j \in 2..Len(s) : s[j] = ">"
    THEN LET j == CHOOSE k \in 2..Len(s) :
                    s[k] = ">" /\ \A m \in 2..(k - 1) : s[m] # ">"
         IN StripTags(SubSeq(s, j + 1, Len(s)))
    ELSE <<Head(s)>> \o StripTags(Tail(s))

RECURSIVE TrimLeft(_)
TrimLeft(s) ==
  IF s # <<>> /\ Head(s) = " " THEN TrimLeft(Tail(s)) ELSE s

RECURSIVE TrimRight(_)
TrimRight(s) ==
  IF s # <<>> /\ s[Len(s)] = " " THEN TrimRight(SubSeq(s, 1, Len(s) - 1)) ELSE s

\* String.prototype.trim()
Trim(s) == TrimRight(TrimLeft(s))

\* sanitizeString of dao-simple.ts and tasks.ts
sanitizeString(input) == Trim(StripTags(input))

\* ------------------------------------------------------------- sequences
RECURSIVE SeqMax(_)
\* Math.max(...xs) of a non-empty list of naturals
SeqMax(xs) ==
  IF Len(xs) = 1 THEN xs[1]
  ELSE LET m == SeqMax(Tail(xs)) IN IF xs[1] >= m THEN xs[1] ELSE m

\* Array.prototype.findIndex: the first index whose element satisfies p, 0 if none
FindIndex(xs, p(_)) ==
  IF \E i \in 1..Len(xs) : p(xs[i])
  THEN CHOOSE i \in 1..Len(xs) : p(xs[i]) /\ \A j \in 1..(i - 1) : ~p(xs[j])
  ELSE 0

RemoveAt(xs, i) == SubSeq(xs, 1, i - 1) \o SubSeq(xs, i + 1, Len(xs))

Range(xs) == {xs[i] : i \in 1..Len(xs)}

\* the values toList.filter(Boolean) drops: the empty string and undefined
Falsy == {"", "undefined"}

RECURSIVE Distinct(_)
\* Array.from(new Set(xs)): every value once, at the place of its first occurrence
Distinct(xs) ==
  IF xs = <<>> THEN <<>>
  ELSE LET front == Distinct(SubSeq(xs, 1, Len(xs) - 1))
           last == xs[Len(xs)]
       IN IF last \in Range(front) THEN front ELSE Append(front, last)

\* ------------------------------------------------------------- sequence numbers
DaoPrefix == <<"D", "A", "O", "-">>

\* `DAO-${year}-`
YearPrefix(y) == DaoPrefix \o ToStr(y) \o <<"-">>

\* the pattern /DAO-\d{4}-(\d{3})/ matches s at position i
PatternAt(s, i) ==
  /\ i + 11 <= Len(s)
  /\ SubSeq(s, i, i + 3) = DaoPrefix
  /\ AllDigits(SubSeq(s, i + 4, i + 7))
  /\ s[i + 8] = "-"
  /\ AllDigits(SubSeq(s, i + 9, i + 11))

\* numeroListe.match(/DAO-\d{4}-(\d{3})/)?.[1]: the capture of the leftmost
\* match, <<>> when the pattern matches nowhere
MatchSuffix(s) ==
  IF \E i \in 1..Len(s) : PatternAt(s, i)
  THEN LET i == CHOOSE k \in 1..Len(s) :
                  PatternAt(s, k) /\ \A m \in 1..(k - 1) : ~PatternAt(s, m)
       IN SubSeq(s, i + 9, i + 11)
  ELSE <<>>

\* (n ? parseInt(n, 10) : 0)
SuffixNumber(s) ==
  LET n == MatchSuffix(s) IN IF n # <<>> THEN ParseInt(n) ELSE 0

\* DaoService.generateNextDaoNumber over the stored sequence numbers, in the
\* year y of the wall clock (both storage branches compute the same value)
generateNextDaoNumber(numbers, y) ==
  LET existing == SelectSeq(numbers, LAMBDA n : StartsWith(n, YearPrefix(y)))
      nums == [i \in 1..Len(existing) |-> SuffixNumber(existing[i])]
      next == IF Len(nums) > 0 THEN SeqMax(nums) + 1 ELSE 1
  IN IF Len(existing) = 0 THEN YearPrefix(y) \o <<"0", "0", "1">>
     ELSE YearPrefix(y) \o PadStart(ToStr(next), 3, "0")

\* ------------------------------------------------------------- state
VARIABLES
  daos,                 \* the stored case files, in storage order
  req,                  \* the request slots: each request's position and locals
  connectionAttempted,  \* tryConnect has run
  useInMemory,          \* the probe failed: the in-memory store serves
  probes,               \* history: the outcome of every connectToDatabase() call
  now,                  \* Date.now(), in milliseconds
  year,                 \* new Date().getFullYear()
  deletedIds,           \* history: <<case-file id, task id>> of every deleted task
  mail,                 \* the call of EmailService.sendBulkNotification in progress
  client                \* the browser: the dialogs, the comment cache, the fetch in progress

vars ==
  <<daos, req, connectionAttempted, useInMemory, probes, now, year, deletedIds, mail, client>>

\* the response before res.json is called
NoResp ==
  [status |-> 0, code |-> "", dao |-> None, nextNumber |-> <<>>,
   deletedTask |-> None, error |-> "undefined", list |-> <<>>]

IdleReq ==
  [dao |-> None, op |-> "none", pc |-> "idle", actor |-> NoActor, id |-> 0,
   taskId |-> 0, body |-> <<>>, data |-> <<>>, updated |-> None,
   previous |-> None, task |-> None, fail |-> "none", events |-> <<>>,
   resp |-> NoResp, emails |-> <<>>, backend |-> "none"]

\* res.status(status).json({error, code}); the wording of the routes' messages
\* is not modelled, each is the text "message"
ErrorResp(status, code) ==
  [NoResp EXCEPT !.status = status, !.code = code, !.error = "message"]

\* the server's global error handler:
\* res.status(err.status || 500).json({error: err.message || "Internal Server
\* Error", timestamp}), a body without a code
errorHandler(status, message) ==
  [NoResp EXCEPT !.status = IF status = 0 THEN 500 ELSE status,
                 !.code = "undefined",
                 !.error = IF message = "" THEN "Internal Server Error"
                           ELSE message]

\* res.status(status).json(dao)
DaoResp(status, dao) == [NoResp EXCEPT !.status = status, !.code = "OK", !.dao = dao]

\* NotificationService.broadcast(kind, title, message, payload)
Event(kind, daoId, taskId, changes) ==
  [taskId |-> taskId, kind |-> kind, daoId |-> daoId, changes |-> changes]

\* the collaborator that fails while a request notifies: none, the in-app
\* notification service, the user directory, or the mail transport
FailPoints == {"none", "notif", "users", "mail"}

\* ------------------------------------------------------------- storage
\* daoStorage.findIndexById / DaoModel.findOne({id}): the first match, 0 if none
findIndexById(id) == FindIndex(daos, LAMBDA d : d.id = id)

\* DaoService.getDaoById
getDaoById(id) ==
  IF findIndexById(id) = 0 THEN None ELSE Some(daos[findIndexById(id)])

\* the branch a storage call takes after ensureConnection: `if (useInMemory)`
\* daoStorage, else DaoModel
Backend == IF useInMemory THEN "memory" ELSE "document"

StoredNumbers == [i \in 1..Len(daos) |-> daos[i].numeroListe]

\* the unique index on numeroListe: a stored case file other than the one at
\* index skip already has this sequence number
DuplicateNumber(numero, skip) ==
  \E i \in 1..Len(daos) : i # skip /\ daos[i].numeroListe = numero

\* {...existing, ...updates}: the fields present in updates replace existing's
MergeDao(existing, updates) ==
  [existing EXCEPT
     !.numeroListe = IF updates.numeroListe = None THEN @ ELSE updates.numeroListe[1],
     !.objetDossier = IF updates.objetDossier = None THEN @ ELSE updates.objetDossier[1],
     !.reference = IF updates.reference = None THEN @ ELSE updates.reference[1],
     !.autoriteContractante =
        IF updates.autoriteContractante = None THEN @ ELSE updates.autoriteContractante[1],
     !.equipe = IF updates.equipe = None THEN @ ELSE updates.equipe[1],
     !.tasks = IF updates.tasks = None THEN @ ELSE updates.tasks[1]]

NoUpdates ==
  [numeroListe |-> None, objetDossier |-> None, reference |-> None,
   autoriteContractante |-> None, equipe |-> None, tasks |-> None]

TasksUpdate(tasks) == [NoUpdates EXCEPT !.tasks = Some(tasks)]

\* the case file DaoService.updateDao(id, updates) writes and returns
updateDaoResult(id, updates) ==
  [MergeDao(daos[findIndexById(id)], updates) EXCEPT !.updatedAt = now]

\* DaoService.updateDao rejects the write: the document store's unique index on
\* numeroListe raises a duplicate-key error (code 11000)
updateDaoDuplicate(id, updates) ==
  /\ ~useInMemory
  /\ updates.numeroListe # None
  /\ DuplicateNumber(updates.numeroListe[1], findIndexById(id))

\* daoStorage.updateAtIndex / DaoModel.findOneAndUpdate
updateAtIndex(index, updated) == [daos EXCEPT ![index] = updated]

\* daoStorage.add / dao.save(): rejected with a duplicate-key error (code 11000)
\* when the sequence number is already stored
addDuplicate(newDao) == DuplicateNumber(newDao.numeroListe, 0)

add(newDao) == Append(daos, newDao)

\* the list as stored, without the sort
getAllDaosUnsorted == daos

RECURSIVE SortByUpdatedAt(_)
\* .slice().sort((a, b) => b.updatedAt.localeCompare(a.updatedAt)) and
\* find().sort({updatedAt: -1}): latest first, a stable sort, so case files
\* with equal stamps keep their stored order
SortByUpdatedAt(xs) ==
  IF xs = <<>> THEN <<>>
  ELSE LET front == SortByUpdatedAt(SubSeq(xs, 1, Len(xs) - 1))
           last == xs[Len(xs)]
           k == Cardinality({i \in 1..Len(front) :
                              front[i].updatedAt >= last.updatedAt})
       IN SubSeq(front, 1, k) \o <<last>> \o SubSeq(front, k + 1, Len(front))

\* DaoService.getAllDaos
getAllDaos == SortByUpdatedAt(daos)

\* ------------------------------------------------------------- validation
\* z.string().min(1).max(max): present, with 1..max characters before trimming
ValidString(s, max) == s # Undefined /\ Len(s) >= 1 /\ Len(s) <= max

\* z.string().max(max).optional()
ValidOptString(s, max) == s = Undefined \/ Len(s) <= max

\* the date strings Date.parse accepts
ParsableDates == {"2025-01-15", "2025-02-01"}

\* z.string().email().optional(), over the addresses the model uses
ValidOptEmail(e) == e # "not-an-email"

\* teamMemberSchema
ValidMember(m) ==
  /\ ValidString(m.id, 50)
  /\ ValidString(m.name, 100)
  /\ m.role \in {"chef_equipe", "membre_equipe"}
  /\ ValidOptEmail(m.email)

\* taskSchema
ValidTask(t) ==
  /\ t.id >= 1
  /\ ValidString(t.name, 200)
  /\ (t.progress = Null \/ (t.progress >= 0 /\ t.progress <= 100))
  /\ ValidOptString(t.comment, 1000)
  /\ t.isApplicable \in BOOLEAN
  /\ ValidOptString(t.assignedTo, 50)

\* createDaoSchema
ValidCreate(body) ==
  /\ ValidString(body.numeroListe, 50)
  /\ ValidString(body.objetDossier, 500)
  /\ ValidString(body.reference, 200)
  /\ ValidString(body.autoriteContractante, 200)
  /\ body.dateDepot \in ParsableDates
  /\ body.equipe # None
  /\ Len(body.equipe[1]) >= 1 /\ Len(body.equipe[1]) <= 20
  /\ \A i \in 1..Len(body.equipe[1]) : ValidMember(body.equipe[1][i])
  /\ (body.tasks # None =>
        /\ Len(body.tasks[1]) <= 50
        /\ \A i \in 1..Len(body.tasks[1]) : ValidTask(body.tasks[1][i]))

\* teamMemberSchema's output (name trimmed), then the route's sanitizeString
SanitizeMember(m) == [m EXCEPT !.name = sanitizeString(Trim(m.name))]

\* taskSchema's output: name trimmed, everything else as sent
ParsedTask(t) == [t EXCEPT !.name = Trim(t.name)]

\* ------------------------------------------------------------- create
\* DEFAULT_TASKS of @shared/dao: the fixed checklist template
DEFAULT_TASKS ==
  << [id |-> 1, name |-> <<"t", "1">>, progress |-> Null, comment |-> Undefined,
      isApplicable |-> TRUE, assignedTo |-> Undefined,
      lastUpdatedBy |-> NoActor, lastUpdatedAt |-> NoTime],
     [id |-> 2, name |-> <<"t", "2">>, progress |-> Null, comment |-> Undefined,
      isApplicable |-> TRUE, assignedTo |-> Undefined,
      lastUpdatedBy |-> NoActor, lastUpdatedAt |-> NoTime] >>

\* DEFAULT_TASKS.map((task) => ({...task, progress: null, comment: ""}))
SeedTemplate ==
  [i \in 1..Len(DEFAULT_TASKS) |->
     [DEFAULT_TASKS[i] EXCEPT !.progress = Null, !.comment = <<>>]]

\* the task the create route builds from t (position idx) for actor at time
CreateTask(t, idx, actor, time) ==
  [id |-> IF t.id # Null THEN t.id ELSE idx,
   name |-> sanitizeString(t.name),
   progress |-> IF t.isApplicable THEN t.progress ELSE Null,
   comment |-> IF t.comment # Undefined /\ t.comment # <<>>
               THEN sanitizeString(t.comment) ELSE Undefined,
   isApplicable |-> t.isApplicable,
   assignedTo |-> t.assignedTo,
   lastUpdatedBy |-> actor,
   lastUpdatedAt |-> time]

\* the tasks of a new case file: the supplied ones, or the template when none
CreateTasks(body, actor, time) ==
  LET src == IF body.tasks # None /\ Len(body.tasks[1]) > 0
             THEN [i \in 1..Len(body.tasks[1]) |-> ParsedTask(body.tasks[1][i])]
             ELSE SeedTemplate
  IN [i \in 1..Len(src) |-> CreateTask(src[i], i, actor, time)]

\* the daoData the create route hands to DaoService.createDao
CreateData(body, actor, time) ==
  [id |-> 0,
   numeroListe |-> sanitizeString(Trim(body.numeroListe)),
   objetDossier |-> sanitizeString(Trim(body.objetDossier)),
   reference |-> sanitizeString(Trim(body.reference)),
   autoriteContractante |-> sanitizeString(Trim(body.autoriteContractante)),
   equipe |-> [i \in 1..Len(body.equipe[1]) |-> SanitizeMember(body.equipe[1][i])],
   tasks |-> CreateTasks(body, actor, time),
   updatedAt |-> NoTime,
   dateDepot |-> body.dateDepot,
   createdAt |-> NoTime]

\* create requests that have not yet stored (or failed to store) their case file
CreatesInFlight ==
  Cardinality({q \in Requests :
                 req[q].op = "create" /\ req[q].pc \in {"createDao", "alloc", "save"}})

\* a new request takes the lowest free slot
FreeSlot(r) ==
  /\ req[r].pc = "idle"
  /\ \A q \in Requests : q < r => req[q].pc # "idle"

createErrorRespNoDuplicate(errCode) == ErrorResp(500, "CREATE_ERROR")

\* the create route's catch block for an error DaoService.createDao throws
createErrorResp(errCode) ==
  IF errCode = 11000 THEN ErrorResp(400, "DUPLICATE_NUMBER")
  ELSE ErrorResp(500, "CREATE_ERROR")

NotifyRespEscalating(fail, status, dao) ==
  IF fail = "none" THEN DaoResp(status, dao) ELSE ErrorResp(500, "NOTIFY_ERROR")

\* the response after the notification block: try { ... } catch (_) {} swallows
\* whatever the block throws, then res.status(status).json(dao)
NotifyResp(fail, status, dao) == DaoResp(status, dao)

\* a notification service that publishes every event twice
BroadcastTwice(fail, events) == IF fail = "notif" THEN <<>> ELSE events \o events

\* NotificationService.broadcast inside a try block: the event reaches the
\* in-app store unless the notification service itself fails
Broadcast(fail, events) == IF fail = "notif" THEN <<>> ELSE events

\* POST /api/dao: createDaoSchema.parse, sanitization, task seeding
CreateStart(r, actor, body) ==
  /\ FreeSlot(r)
  /\ Len(daos) + CreatesInFlight < MaxDaos
  /\ req' = [req EXCEPT ![r] =
       IF ValidCreate(body)
       THEN [IdleReq EXCEPT !.op = "create", !.pc = "createDao", !.actor = actor,
                            !.body = body, !.data = CreateData(body, actor, now)]
       ELSE [IdleReq EXCEPT !.op = "create", !.pc = "done", !.actor = actor,
                            !.body = body,
                            !.resp = ErrorResp(400, "VALIDATION_ERROR")]]
  /\ UNCHANGED <<daos, connectionAttempted, useInMemory, probes, now, year, deletedIds, mail, client>>

\* daoStorage.add(newDao) / dao.save() and what createDao's caller sees
StoreNew(r, d) ==
  IF addDuplicate(d)
  THEN /\ req' = [req EXCEPT ![r].pc = "done", ![r].data = d,
                             ![r].resp = createErrorResp(11000)]
       /\ UNCHANGED daos
  ELSE /\ daos' = add(d)
       /\ req' = [req EXCEPT ![r].pc = "notify", ![r].data = d,
                             ![r].updated = Some(d)]

\* DaoService.createDao up to its first await after ensureConnection
CreateDaoEnter(r) ==
  /\ req[r].op = "create" /\ req[r].pc = "createDao"
  /\ connectionAttempted
  /\ LET d == [req[r].data EXCEPT !.id = now, !.createdAt = now, !.updatedAt = now]
     IN IF d.numeroListe = <<>> \/ Includes(d.numeroListe, <<"0", "0", "1">>)
        THEN /\ req' = [req EXCEPT ![r].pc = "alloc", ![r].data = d]
             /\ UNCHANGED daos
        ELSE IF useInMemory
        THEN StoreNew(r, d)
        ELSE /\ req' = [req EXCEPT ![r].pc = "save", ![r].data = d]
             /\ UNCHANGED daos
  /\ UNCHANGED <<connectionAttempted, useInMemory, probes, now, year, deletedIds, mail, client>>

\* numeroListe = await this.generateNextDaoNumber()
CreateAlloc(r) ==
  /\ req[r].op = "create" /\ req[r].pc = "alloc"
  /\ req' = [req EXCEPT ![r].pc = "save",
                        ![r].data.numeroListe =
                            generateNextDaoNumber(StoredNumbers, year)]
  /\ UNCHANGED <<daos, connectionAttempted, useInMemory, probes, now, year, deletedIds, mail, client>>

\* createDao resumes and stores the case file
CreateSave(r) ==
  /\ req[r].op = "create" /\ req[r].pc = "save"
  /\ StoreNew(r, req[r].data)
  /\ UNCHANGED <<connectionAttempted, useInMemory, probes, now, year, deletedIds, mail, client>>

\* the create route's notification block and its 201 response
CreateNotify(r, fail) ==
  /\ req[r].op = "create" /\ req[r].pc = "notify"
  /\ req' = [req EXCEPT
       ![r].pc = "done", ![r].fail = fail,
       ![r].events = Broadcast(fail,
                       <<Event("dao_created", req[r].updated[1].id, 0, <<>>)>>),
       ![r].resp = NotifyResp(fail, 201, req[r].updated)]
  /\ UNCHANGED <<daos, connectionAttempted, useInMemory, probes, now, year, deletedIds, mail, client>>

\* GET /api/dao/next-number
NextNumber(r) ==
  /\ FreeSlot(r)
  /\ connectionAttempted
  /\ req' = [req EXCEPT ![r] =
       [IdleReq EXCEPT !.op = "nextNumber", !.pc = "done",
                       !.resp = [NoResp EXCEPT
                          !.status = 200, !.code = "OK",
                          !.nextNumber = generateNextDaoNumber(StoredNumbers, year)]]]
  /\ UNCHANGED <<daos, connectionAttempted, useInMemory, probes, now, year, deletedIds, mail, client>>

\* ------------------------------------------------------------- update case file
\* updateDaoSchema = createDaoSchema.partial(): every field optional
ValidUpdate(body) ==
  /\ (body.numeroListe # Undefined => ValidString(body.numeroListe, 50))
  /\ (body.objetDossier # Undefined => ValidString(body.objetDossier, 500))
  /\ (body.reference # Undefined => ValidString(body.reference, 200))
  /\ (body.autoriteContractante # Undefined =>
        ValidString(body.autoriteContractante, 200))
  /\ (body.dateDepot # "undefined" => body.dateDepot \in ParsableDates)
  /\ (body.equipe # None =>
        /\ Len(body.equipe[1]) >= 1 /\ Len(body.equipe[1]) <= 20
        /\ \A i \in 1..Len(body.equipe[1]) : ValidMember(body.equipe[1][i]))
  /\ (body.tasks # None =>
        /\ Len(body.tasks[1]) <= 50
        /\ \A i \in 1..Len(body.tasks[1]) : ValidTask(body.tasks[1][i]))

\* if (validatedData.f) updates.f = sanitizeString(validatedData.f)
SanitizedUpdate(s) ==
  IF s # Undefined /\ Trim(s) # <<>> THEN Some(sanitizeString(Trim(s))) ELSE None

\* the updates object PUT /api/dao/:id builds from the validated body
UpdateData(body) ==
  [numeroListe |-> SanitizedUpdate(body.numeroListe),
   objetDossier |-> SanitizedUpdate(body.objetDossier),
   reference |-> SanitizedUpdate(body.reference),
   autoriteContractante |-> SanitizedUpdate(body.autoriteContractante),
   equipe |-> IF body.equipe # None
              THEN Some([i \in 1..Len(body.equipe[1]) |->
                           SanitizeMember(body.equipe[1][i])])
              ELSE None,
   tasks |-> IF body.tasks # None
             THEN Some([i \in 1..Len(body.tasks[1]) |-> ParsedTask(body.tasks[1][i])])
             ELSE None]

\* new Map(list.map((x) => [x.id, x])).get(id): the last element with that id
MapGet(list, id) ==
  list[CHOOSE i \in 1..Len(list) :
         list[i].id = id /\ \A j \in (i + 1)..Len(list) : list[j].id # id]

MapHas(list, id) == \E i \in 1..Len(list) : list[i].id = id

\* the entries of new Map(list.map((x) => [x.id, x])), in iteration order: one
\* per key, at the place of the key's first occurrence, holding the last value
MapEntries(list) ==
  LET firsts == SelectSeq([i \in 1..Len(list) |-> i],
                          LAMBDA i : \A j \in 1..(i - 1) : list[j].id # list[i].id)
  IN [k \in 1..Len(firsts) |-> MapGet(list, list[firsts[k]].id)]

Change(what, subject, from, to) ==
  [what |-> what, subject |-> subject, from |-> from, to |-> to]

RoleText(role) == IF role = "chef_equipe" THEN <<"c">> ELSE <<"m">>

\* the team block reporting the members that joined and nothing else
TeamChangesAdditionsOnly(beforeTeam, afterTeam) ==
  LET joined == SelectSeq(MapEntries(afterTeam),
                          LAMBDA m : ~MapHas(beforeTeam, m.id))
  IN [i \in 1..Len(joined) |-> Change("added", joined[i].name, <<>>, <<>>)]

\* the `changed` list of the team block: additions and role changes in the
\* order of the new team, then removals in the order of the old team
TeamChanges(beforeTeam, afterTeam) ==
  LET after == MapEntries(afterTeam)
      before == MapEntries(beforeTeam)
      one(m) ==
        IF ~MapHas(beforeTeam, m.id) THEN <<Change("added", m.name, <<>>, <<>>)>>
        ELSE IF MapGet(beforeTeam, m.id).role # m.role
        THEN <<Change("role", m.name, RoleText(MapGet(beforeTeam, m.id).role),
                      RoleText(m.role))>>
        ELSE <<>>
      gone(m) ==
        IF ~MapHas(afterTeam, m.id) THEN <<Change("removed", m.name, <<>>, <<>>)>>
        ELSE <<>>
      RECURSIVE Cat(_, _, _)
      Cat(list, i, which) ==
        IF i > Len(list) THEN <<>>
        ELSE (IF which = "one" THEN one(list[i]) ELSE gone(list[i]))
             \o Cat(list, i + 1, which)
  IN Cat(after, 1, "one") \o Cat(before, 1, "gone")

BoolText(b) == IF b THEN <<"O", "u", "i">> ELSE <<"N", "o", "n">>

\* prev.progress ?? 0
OrZero(p) == IF p = Null THEN 0 ELSE p

\* t.assignedTo ?? "aucun"
OrAucun(a) == IF a = Undefined THEN <<"a", "u", "c", "u", "n">> ELSE a

\* the assignee entry of a change list: "réassignée (A -> B)" when the task had
\* a (non-empty) assignee, "assignée à B" otherwise
AssigneeChange(prev, t) ==
  IF prev.assignedTo # Undefined /\ prev.assignedTo # <<>>
  THEN Change("reassigned", <<>>, prev.assignedTo, OrAucun(t.assignedTo))
  ELSE Change("assigned", <<>>, <<>>, OrAucun(t.assignedTo))

TaskDiffsNoCoalesce(prev, t) ==
  IF prev.progress # OrZero(t.progress) /\ t.isApplicable
  THEN <<Change("progress", <<>>, <<>>, ToStr(OrZero(t.progress)))>> ELSE <<>>

\* the `diffs` list the update-case-file route computes for one task
TaskDiffs(prev, t) ==
  (IF prev.isApplicable # t.isApplicable
   THEN <<Change("applicable", <<>>, BoolText(prev.isApplicable),
                 BoolText(t.isApplicable))>>
   ELSE <<>>)
  \o (IF OrZero(prev.progress) # OrZero(t.progress) /\ t.isApplicable
      THEN <<Change("progress", <<>>, ToStr(OrZero(prev.progress)),
                    ToStr(OrZero(t.progress)))>>
      ELSE <<>>)
  \o (IF prev.comment # t.comment THEN <<Change("comment", <<>>, <<>>, <<>>)>>
      ELSE <<>>)
  \o (IF prev.assignedTo # t.assignedTo THEN <<AssigneeChange(prev, t)>> ELSE <<>>)

RECURSIVE TaskEvents(_, _, _, _)
\* the task_updated events of the per-task block, for tasks[i..]
TaskEvents(beforeTasks, tasks, i, daoId) ==
  IF i > Len(tasks) THEN <<>>
  ELSE LET t == tasks[i]
           diffs == IF MapHas(beforeTasks, t.id)
                    THEN TaskDiffs(MapGet(beforeTasks, t.id), t) ELSE <<>>
       IN (IF diffs # <<>> THEN <<Event("task_updated", daoId, t.id, diffs)>>
           ELSE <<>>)
          \o TaskEvents(beforeTasks, tasks, i + 1, daoId)

\* the changedFields list of the general block
ChangedFields(before, updated) ==
  (IF before.numeroListe # updated.numeroListe THEN <<"numeroListe">> ELSE <<>>)
  \o (IF before.objetDossier # updated.objetDossier THEN <<"objetDossier">> ELSE <<>>)
  \o (IF before.reference # updated.reference THEN <<"reference">> ELSE <<>>)
  \o (IF before.autoriteContractante # updated.autoriteContractante
      THEN <<"autoriteContractante">> ELSE <<>>)
  \o (IF before.dateDepot # updated.dateDepot THEN <<"dateDepot">> ELSE <<>>)

\* the events of PUT /api/dao/:id with the general event broadcast always
UpdateEventsAlwaysGeneral(id, body, before, updated) ==
  LET team == IF before # None /\ body.equipe # None
              THEN TeamChanges(before[1].equipe, updated.equipe) ELSE <<>>
      teamEvents == IF team # <<>>
                    THEN <<Event("role_update", updated.id, 0, team)>> ELSE <<>>
      taskEvents == IF before # None /\ body.tasks # None
                    THEN TaskEvents(before[1].tasks, updated.tasks, 1, id) ELSE <<>>
      changedFields == IF before # None THEN ChangedFields(before[1], updated)
                       ELSE <<>>
  IN teamEvents \o taskEvents \o <<Event("dao_updated", updated.id, 0, changedFields)>>

\* every event PUT /api/dao/:id broadcasts when nothing fails
UpdateEvents(id, body, before, updated) ==
  LET team == IF before # None /\ body.equipe # None
              THEN TeamChanges(before[1].equipe, updated.equipe) ELSE <<>>
      teamEvents == IF team # <<>>
                    THEN <<Event("role_update", updated.id, 0, team)>> ELSE <<>>
      taskEvents == IF before # None /\ body.tasks # None
                    THEN TaskEvents(before[1].tasks, updated.tasks, 1, id) ELSE <<>>
      hasTaskChanges == taskEvents # <<>>
      changedFields == IF before # None THEN ChangedFields(before[1], updated)
                       ELSE <<>>
      general == IF changedFields # <<>> \/ ~hasTaskChanges
                 THEN <<Event("dao_updated", updated.id, 0, changedFields)>>
                 ELSE <<>>
  IN teamEvents \o taskEvents \o general

\* PUT /api/dao/:id: updateDaoSchema.parse and the updates object
UpdateStart(r, actor, id, body) ==
  /\ FreeSlot(r)
  /\ req' = [req EXCEPT ![r] =
       IF ValidUpdate(body)
       THEN [IdleReq EXCEPT !.op = "update", !.pc = "load", !.actor = actor,
                            !.id = id, !.body = body, !.data = UpdateData(body)]
       ELSE [IdleReq EXCEPT !.op = "update", !.pc = "done", !.actor = actor,
                            !.id = id, !.body = body,
                            !.resp = ErrorResp(400, "VALIDATION_ERROR")]]
  /\ UNCHANGED <<daos, connectionAttempted, useInMemory, probes, now, year, deletedIds, mail, client>>

\* const before = await DaoService.getDaoById(id)
UpdateLoad(r) ==
  /\ req[r].op = "update" /\ req[r].pc = "load"
  /\ connectionAttempted
  /\ req' = [req EXCEPT ![r].pc = "persist", ![r].dao = getDaoById(req[r].id),
                        ![r].backend = Backend]
  /\ UNCHANGED <<daos, connectionAttempted, useInMemory, probes, now, year, deletedIds, mail, client>>

\* const updated = await DaoService.updateDao(id, updates), with the 404 and the
\* duplicate-key answers of the route
UpdatePersist(r) ==
  /\ req[r].op = "update" /\ req[r].pc = "persist"
  /\ IF findIndexById(req[r].id) = 0
     THEN /\ req' = [req EXCEPT ![r].pc = "done",
                                ![r].resp = ErrorResp(404, "DAO_NOT_FOUND")]
          /\ UNCHANGED daos
     ELSE IF updateDaoDuplicate(req[r].id, req[r].data)
     THEN /\ req' = [req EXCEPT ![r].pc = "done",
                                ![r].resp = ErrorResp(400, "DUPLICATE_NUMBER")]
          /\ UNCHANGED daos
     ELSE LET u == updateDaoResult(req[r].id, req[r].data)
          IN /\ daos' = updateAtIndex(findIndexById(req[r].id), u)
             /\ req' = [req EXCEPT ![r].pc = "notify", ![r].updated = Some(u)]
  /\ UNCHANGED <<connectionAttempted, useInMemory, probes, now, year, deletedIds, mail, client>>

\* the two notification blocks of PUT /api/dao/:id and its 200 response
UpdateNotify(r, fail) ==
  /\ req[r].op = "update" /\ req[r].pc = "notify"
  /\ req' = [req EXCEPT
       ![r].pc = "done", ![r].fail = fail,
       ![r].events = Broadcast(fail,
                       UpdateEvents(req[r].id, req[r].body, req[r].dao,
                                    req[r].updated[1])),
       ![r].resp = NotifyResp(fail, 200, req[r].updated)]
  /\ UNCHANGED <<daos, connectionAttempted, useInMemory, probes, now, year, deletedIds, mail, client>>

\* ------------------------------------------------------------- task routes
\* dao.tasks.find((t) => t.id === id): index of the first task with that id
TaskIndex(tasks, id) == FindIndex(tasks, LAMBDA t : t.id = id)

TaskIds(tasks) == [i \in 1..Len(tasks) |-> tasks[i].id]

\* a write that carries over the tasks another request changed meanwhile
PersistTasksMerging(r) ==
  IF findIndexById(req[r].id) = 0
  THEN /\ req' = [req EXCEPT ![r].pc = "notify", ![r].updated = None]
       /\ UNCHANGED daos
  ELSE LET cur == daos[findIndexById(req[r].id)].tasks
           snap == req[r].dao[1].tasks
           new == req[r].data
           merged == IF Len(cur) = Len(new) /\ Len(snap) = Len(new)
                     THEN [k \in 1..Len(new) |->
                             IF new[k] # snap[k] THEN new[k] ELSE cur[k]]
                     ELSE new
           u == updateDaoResult(req[r].id, TasksUpdate(merged))
       IN /\ daos' = updateAtIndex(findIndexById(req[r].id), u)
          /\ req' = [req EXCEPT ![r].pc = "notify", ![r].updated = Some(u)]

\* const updated = await DaoService.updateDao(id, {tasks}): the write every
\* task route ends with; updateDao answers null when the case file is gone
PersistTasks(r) ==
  IF findIndexById(req[r].id) = 0
  THEN /\ req' = [req EXCEPT ![r].pc = "notify", ![r].updated = None]
       /\ UNCHANGED daos
  ELSE LET u == updateDaoResult(req[r].id, TasksUpdate(req[r].data))
       IN /\ daos' = updateAtIndex(findIndexById(req[r].id), u)
          /\ req' = [req EXCEPT ![r].pc = "notify", ![r].updated = Some(u)]

\* a rejection that answers every missing target alike
RejectCaseFileOnly(r, status, code) ==
  /\ req' = [req EXCEPT ![r].pc = "done", ![r].dao = getDaoById(req[r].id),
                        ![r].resp = IF status = 404
                                    THEN ErrorResp(404, "DAO_NOT_FOUND")
                                    ELSE ErrorResp(status, code)]
  /\ UNCHANGED daos

\* the answer of a route that stops before any write
Reject(r, status, code) ==
  /\ req' = [req EXCEPT ![r].pc = "done", ![r].dao = getDaoById(req[r].id),
                        ![r].resp = ErrorResp(status, code)]
  /\ UNCHANGED daos

\* ---- PUT /api/dao/:id/tasks/reorder
\* taskIds.filter((tid) => !existingTaskIds.includes(tid))
InvalidIds(taskIds, existingTaskIds) ==
  SelectSeq(taskIds, LAMBDA tid : tid \notin Range(existingTaskIds))

\* taskIds.length !== dao.tasks.length ||
\* !existingTaskIds.every((tid) => taskIds.includes(tid))
IncompleteListByLength(taskIds, existingTaskIds) ==
  Len(taskIds) # Len(existingTaskIds)

IncompleteList(taskIds, existingTaskIds) ==
  \/ Len(taskIds) # Len(existingTaskIds)
  \/ ~(\A i \in 1..Len(existingTaskIds) : existingTaskIds[i] \in Range(taskIds))

\* taskIds.map((taskId) => dao.tasks.find((task) => task.id === taskId)!)
reorderedTasks(taskIds, tasks) ==
  [i \in 1..Len(taskIds) |-> tasks[TaskIndex(tasks, taskIds[i])]]

\* the checks on req.body.taskIds before the case file is read
ReorderStart(r, actor, id, taskIds) ==
  /\ FreeSlot(r)
  /\ req' = [req EXCEPT ![r] =
       IF taskIds = None \/ Len(taskIds[1]) = 0
       THEN [IdleReq EXCEPT !.op = "reorder", !.pc = "done", !.actor = actor,
                            !.id = id, !.body = taskIds,
                            !.resp = ErrorResp(400, "INVALID_TASK_IDS")]
       ELSE [IdleReq EXCEPT !.op = "reorder", !.pc = "load", !.actor = actor,
                            !.id = id, !.body = taskIds]]
  /\ UNCHANGED <<daos, connectionAttempted, useInMemory, probes, now, year, deletedIds, mail, client>>

\* getDaoById, the two checks of the id list, and the reordered list
ReorderLoad(r) ==
  /\ req[r].op = "reorder" /\ req[r].pc = "load"
  /\ connectionAttempted
  /\ LET dao == getDaoById(req[r].id)
         taskIds == req[r].body[1]
     IN IF dao = None THEN Reject(r, 404, "DAO_NOT_FOUND")
        ELSE IF InvalidIds(taskIds, TaskIds(dao[1].tasks)) # <<>>
        THEN Reject(r, 400, "INVALID_TASK_IDS")
        ELSE IF IncompleteList(taskIds, TaskIds(dao[1].tasks))
        THEN Reject(r, 400, "INCOMPLETE_TASK_LIST")
        ELSE /\ req' = [req EXCEPT ![r].pc = "persist", ![r].dao = dao,
                                   ![r].data = reorderedTasks(taskIds, dao[1].tasks)]
             /\ UNCHANGED daos
  /\ UNCHANGED <<connectionAttempted, useInMemory, probes, now, year, deletedIds, mail, client>>

ReorderPersist(r) ==
  /\ req[r].op = "reorder" /\ req[r].pc = "persist"
  /\ PersistTasks(r)
  /\ UNCHANGED <<connectionAttempted, useInMemory, probes, now, year, deletedIds, mail, client>>

ReorderNotify(r, fail) ==
  /\ req[r].op = "reorder" /\ req[r].pc = "notify"
  /\ req' = [req EXCEPT
       ![r].pc = "done", ![r].fail = fail,
       ![r].events = Broadcast(fail, <<Event("task_reordered", req[r].id, 0, <<>>)>>),
       ![r].resp = NotifyResp(fail, 200, req[r].updated)]
  /\ UNCHANGED <<daos, connectionAttempted, useInMemory, probes, now, year, deletedIds, mail, client>>

\* ---- POST /api/dao/:daoId/tasks
\* createTaskSchema
ValidNewTask(body) ==
  /\ ValidString(body.name, 200)
  /\ (body.progress = Null \/ (body.progress >= 0 /\ body.progress <= 100))
  /\ ValidOptString(body.comment, 1000)
  /\ ValidOptString(body.assignedTo, 50)

newIdFromLength(existingIds) == Len(existingIds) + 1

\* existingIds.length > 0 ? Math.max(...existingIds) + 1 : 1
newId(existingIds) ==
  IF Len(existingIds) > 0 THEN SeqMax(existingIds) + 1 ELSE 1

\* a new task that keeps the progress of the request whatever its applicability
NewTaskKeepsProgress(body, id, actor, time) ==
  [id |-> id,
   name |-> sanitizeString(Trim(body.name)),
   progress |-> body.progress,
   comment |-> IF body.comment # Undefined /\ body.comment # <<>>
               THEN sanitizeString(body.comment) ELSE Undefined,
   isApplicable |-> body.isApplicable,
   assignedTo |-> body.assignedTo,
   lastUpdatedBy |-> actor,
   lastUpdatedAt |-> time]

\* the newTask object of the add-task route
NewTask(body, id, actor, time) ==
  [id |-> id,
   name |-> sanitizeString(Trim(body.name)),
   progress |-> IF body.isApplicable THEN body.progress ELSE Null,
   comment |-> IF body.comment # Undefined /\ body.comment # <<>>
               THEN sanitizeString(body.comment) ELSE Undefined,
   isApplicable |-> body.isApplicable,
   assignedTo |-> body.assignedTo,
   lastUpdatedBy |-> actor,
   lastUpdatedAt |-> time]

\* tasks the stored case file id has now (none when it is not stored)
StoredTaskCount(id) ==
  IF findIndexById(id) = 0 THEN 0 ELSE Len(daos[findIndexById(id)].tasks)

\* the largest task id of the stored case file id (0 when it has no task)
StoredMaxTaskId(id) ==
  IF StoredTaskCount(id) = 0 THEN 0
  ELSE SeqMax(TaskIds(daos[findIndexById(id)].tasks))

AddTaskStart(r, actor, id, body) ==
  /\ FreeSlot(r)
  /\ StoredTaskCount(id) < MaxTasks
  /\ StoredMaxTaskId(id) < MaxTaskId
  /\ req' = [req EXCEPT ![r] =
       IF ValidNewTask(body)
       THEN [IdleReq EXCEPT !.op = "addTask", !.pc = "load", !.actor = actor,
                            !.id = id, !.body = body]
       ELSE [IdleReq EXCEPT !.op = "addTask", !.pc = "done", !.actor = actor,
                            !.id = id, !.body = body,
                            !.resp = ErrorResp(400, "VALIDATION_ERROR")]]
  /\ UNCHANGED <<daos, connectionAttempted, useInMemory, probes, now, year, deletedIds, mail, client>>

AddTaskLoad(r) ==
  /\ req[r].op = "addTask" /\ req[r].pc = "load"
  /\ connectionAttempted
  /\ LET dao == getDaoById(req[r].id)
     IN IF dao = None THEN Reject(r, 404, "DAO_NOT_FOUND")
        ELSE LET t == NewTask(req[r].body, newId(TaskIds(dao[1].tasks)),
                              req[r].actor, now)
             IN /\ req' = [req EXCEPT ![r].pc = "persist", ![r].dao = dao,
                                      ![r].task = Some(t),
                                      ![r].data = Append(dao[1].tasks, t)]
                /\ UNCHANGED daos
  /\ UNCHANGED <<connectionAttempted, useInMemory, probes, now, year, deletedIds, mail, client>>

AddTaskPersist(r) ==
  /\ req[r].op = "addTask" /\ req[r].pc = "persist"
  /\ PersistTasks(r)
  /\ UNCHANGED <<connectionAttempted, useInMemory, probes, now, year, deletedIds, mail, client>>

AddTaskNotify(r, fail) ==
  /\ req[r].op = "addTask" /\ req[r].pc = "notify"
  /\ req' = [req EXCEPT
       ![r].pc = "done", ![r].fail = fail,
       ![r].events = Broadcast(fail,
                       <<Event("task_created", req[r].id, req[r].task[1].id, <<>>)>>),
       ![r].resp = NotifyResp(fail, 201, req[r].updated)]
  /\ UNCHANGED <<daos, connectionAttempted, useInMemory, probes, now, year, deletedIds, mail, client>>

\* ---- PUT /api/dao/:daoId/tasks/:taskId/name
\* isNaN(parsedTaskId) || parsedTaskId < 1
InvalidTaskId(taskId) == taskId < 1

RenameStart(r, actor, id, taskId, name) ==
  /\ FreeSlot(r)
  /\ req' = [req EXCEPT ![r] =
       IF InvalidTaskId(taskId)
       THEN [IdleReq EXCEPT !.op = "rename", !.pc = "done", !.actor = actor,
                            !.id = id, !.taskId = taskId, !.body = name,
                            !.resp = ErrorResp(400, "INVALID_TASK_ID")]
       ELSE IF ~ValidString(name, 200)
       THEN [IdleReq EXCEPT !.op = "rename", !.pc = "done", !.actor = actor,
                            !.id = id, !.taskId = taskId, !.body = name,
                            !.resp = ErrorResp(400, "VALIDATION_ERROR")]
       ELSE [IdleReq EXCEPT !.op = "rename", !.pc = "load", !.actor = actor,
                            !.id = id, !.taskId = taskId, !.body = name]]
  /\ UNCHANGED <<daos, connectionAttempted, useInMemory, probes, now, year, deletedIds, mail, client>>

\* a rename that also resets the progress of the task
RenamedTaskResettingProgress(task, name, actor, time) ==
  [task EXCEPT !.name = sanitizeString(Trim(name)), !.progress = 0,
               !.lastUpdatedBy = actor, !.lastUpdatedAt = time]

\* the renamed task: name, lastUpdatedBy and lastUpdatedAt are reassigned
RenamedTask(task, name, actor, time) ==
  [task EXCEPT !.name = sanitizeString(Trim(name)),
               !.lastUpdatedBy = actor, !.lastUpdatedAt = time]

RenameLoad(r) ==
  /\ req[r].op = "rename" /\ req[r].pc = "load"
  /\ connectionAttempted
  /\ LET dao == getDaoById(req[r].id)
     IN IF dao = None THEN Reject(r, 404, "DAO_NOT_FOUND")
        ELSE IF TaskIndex(dao[1].tasks, req[r].taskId) = 0
        THEN Reject(r, 404, "TASK_NOT_FOUND")
        ELSE LET k == TaskIndex(dao[1].tasks, req[r].taskId)
                 t == RenamedTask(dao[1].tasks[k], req[r].body, req[r].actor, now)
             IN /\ req' = [req EXCEPT ![r].pc = "persist", ![r].dao = dao,
                                      ![r].previous = Some(dao[1].tasks[k]),
                                      ![r].task = Some(t),
                                      ![r].data = [dao[1].tasks EXCEPT ![k] = t]]
                /\ UNCHANGED daos
  /\ UNCHANGED <<connectionAttempted, useInMemory, probes, now, year, deletedIds, mail, client>>

RenamePersist(r) ==
  /\ req[r].op = "rename" /\ req[r].pc = "persist"
  /\ PersistTasks(r)
  /\ UNCHANGED <<connectionAttempted, useInMemory, probes, now, year, deletedIds, mail, client>>

RenameNotify(r, fail) ==
  /\ req[r].op = "rename" /\ req[r].pc = "notify"
  /\ req' = [req EXCEPT
       ![r].pc = "done", ![r].fail = fail,
       ![r].events = Broadcast(fail,
                       <<Event("task_updated", req[r].id, req[r].taskId, <<>>)>>),
       ![r].resp = NotifyResp(fail, 200, req[r].updated)]
  /\ UNCHANGED <<daos, connectionAttempted, useInMemory, probes, now, year, deletedIds, mail, client>>

\* ---- PUT /api/dao/:id/tasks/:taskId
\* taskUpdateSchema
ValidTaskUpdate(body) ==
  /\ (body.progress # None => (body.progress[1] >= 0 /\ body.progress[1] <= 100))
  /\ ValidOptString(body.comment, 1000)
  /\ ValidOptString(body.assignedTo, 50)

\* the task after the route's field-by-field assignments
UpdatedTask(task, body, actor, time) ==
  [task EXCEPT
     !.progress = IF body.progress # None THEN body.progress[1] ELSE @,
     !.comment = IF body.comment # Undefined THEN sanitizeString(body.comment) ELSE @,
     !.isApplicable = IF body.isApplicable # None THEN body.isApplicable[1] ELSE @,
     !.assignedTo = IF body.assignedTo # Undefined
                    THEN sanitizeString(body.assignedTo) ELSE @,
     !.lastUpdatedBy = actor,
     !.lastUpdatedAt = time]

\* the `changes` list of the update-task route
TaskChanges(previous, task) ==
  (IF OrZero(previous.progress) # OrZero(task.progress)
   THEN <<Change("progress", <<>>, ToStr(OrZero(previous.progress)),
                 ToStr(OrZero(task.progress)))>>
   ELSE <<>>)
  \o (IF previous.comment # task.comment THEN <<Change("comment", <<>>, <<>>, <<>>)>>
      ELSE <<>>)
  \o (IF previous.isApplicable # task.isApplicable
      THEN <<Change("applicable", <<>>, BoolText(previous.isApplicable),
                    BoolText(task.isApplicable))>>
      ELSE <<>>)
  \o (IF previous.assignedTo # task.assignedTo
      THEN <<AssigneeChange(previous, task)>> ELSE <<>>)

UpdateTaskEventGeneric(id, previous, task) ==
  Event("task_updated", id, task.id, TaskChanges(previous, task))

\* the single event the update-task route broadcasts
UpdateTaskEvent(id, previous, task) ==
  IF previous.assignedTo # task.assignedTo
  THEN Event(IF task.assignedTo = Undefined \/ task.assignedTo = <<>>
             THEN "task_unassigned" ELSE "task_assigned",
             id, task.id, TaskChanges(previous, task))
  ELSE Event("task_updated", id, task.id, TaskChanges(previous, task))

UpdateTaskStart(r, actor, id, taskId, body) ==
  /\ FreeSlot(r)
  /\ req' = [req EXCEPT ![r] =
       IF InvalidTaskId(taskId)
       THEN [IdleReq EXCEPT !.op = "updateTask", !.pc = "done", !.actor = actor,
                            !.id = id, !.taskId = taskId, !.body = body,
                            !.resp = ErrorResp(400, "INVALID_TASK_ID")]
       ELSE IF ~ValidTaskUpdate(body)
       THEN [IdleReq EXCEPT !.op = "updateTask", !.pc = "done", !.actor = actor,
                            !.id = id, !.taskId = taskId, !.body = body,
                            !.resp = ErrorResp(400, "VALIDATION_ERROR")]
       ELSE [IdleReq EXCEPT !.op = "updateTask", !.pc = "load", !.actor = actor,
                            !.id = id, !.taskId = taskId, !.body = body]]
  /\ UNCHANGED <<daos, connectionAttempted, useInMemory, probes, now, year, deletedIds, mail, client>>

\* the update-task route answering from the task it changed, without the write
UpdateTaskLoadUnsaved(r) ==
  /\ req[r].op = "updateTask" /\ req[r].pc = "load"
  /\ connectionAttempted
  /\ LET dao == getDaoById(req[r].id)
     IN IF dao = None THEN Reject(r, 404, "DAO_NOT_FOUND")
        ELSE IF TaskIndex(dao[1].tasks, req[r].taskId) = 0
        THEN Reject(r, 404, "TASK_NOT_FOUND")
        ELSE LET k == TaskIndex(dao[1].tasks, req[r].taskId)
                 t == UpdatedTask(dao[1].tasks[k], req[r].body, req[r].actor, now)
             IN /\ req' = [req EXCEPT
                     ![r].pc = "notify", ![r].dao = dao,
                     ![r].updated = Some([dao[1] EXCEPT !.tasks[k] = t]),
                     ![r].previous = Some(dao[1].tasks[k]),
                     ![r].task = Some(t)]
                /\ UNCHANGED daos
  /\ UNCHANGED <<connectionAttempted, useInMemory, probes, now, year, deletedIds, mail, client>>

UpdateTaskLoad(r) ==
  /\ req[r].op = "updateTask" /\ req[r].pc = "load"
  /\ connectionAttempted
  /\ LET dao == getDaoById(req[r].id)
     IN IF dao = None THEN Reject(r, 404, "DAO_NOT_FOUND")
        ELSE IF TaskIndex(dao[1].tasks, req[r].taskId) = 0
        THEN Reject(r, 404, "TASK_NOT_FOUND")
        ELSE LET k == TaskIndex(dao[1].tasks, req[r].taskId)
                 t == UpdatedTask(dao[1].tasks[k], req[r].body, req[r].actor, now)
             IN /\ req' = [req EXCEPT ![r].pc = "persist", ![r].dao = dao,
                                      ![r].previous = Some(dao[1].tasks[k]),
                                      ![r].task = Some(t),
                                      ![r].data = [dao[1].tasks EXCEPT ![k] = t]]
                /\ UNCHANGED daos
  /\ UNCHANGED <<connectionAttempted, useInMemory, probes, now, year, deletedIds, mail, client>>

UpdateTaskPersist(r) ==
  /\ req[r].op = "updateTask" /\ req[r].pc = "persist"
  /\ PersistTasks(r)
  /\ UNCHANGED <<connectionAttempted, useInMemory, probes, now, year, deletedIds, mail, client>>

\* AuthService.getAllUsers().map((u) => u.email): the known users; one of them
\* is also the team member m1
AllUserEmails == <<"u@x.io", "a@x.io">>

\* dao.equipe.find((m) => m.id === task.assignedTo)?.email
AssigneeEmail(dao, task) ==
  LET k == FindIndex(dao.equipe, LAMBDA m : m.id = task.assignedTo)
  IN IF k = 0 THEN "undefined" ELSE dao.equipe[k].email

\* the update-task route mailing the new assignee and nobody else
UpdateTaskEmailsAssigneeOnly(fail, dao, previous, task) ==
  IF fail # "notif" /\ previous.assignedTo # task.assignedTo
     /\ AssigneeEmail(dao, task) \notin Falsy
  THEN <<AssigneeEmail(dao, task)>>
  ELSE IF fail \in {"notif", "users"} \/ previous.assignedTo # task.assignedTo
  THEN <<>>
  ELSE Distinct(SelectSeq(AllUserEmails, LAMBDA a : a \notin Falsy))

\* the addresses the update-task route hands to the mail transport, in order:
\* the new assignee when the assignee changed and the team resolves an address,
\* then "Email all users for any task update". A failing notification service
\* ends the outer try block before any mail; a failing transport ends it at
\* the assignee's mail, which no inner try wraps; a failing user directory
\* ends only the inner try block
UpdateTaskEmails(fail, dao, previous, task) ==
  LET single == IF previous.assignedTo # task.assignedTo
                   /\ AssigneeEmail(dao, task) \notin Falsy
                THEN <<AssigneeEmail(dao, task)>> ELSE <<>>
  IN IF fail = "notif" THEN <<>>
     ELSE IF fail = "users" \/ (fail = "mail" /\ single # <<>>) THEN single
     ELSE single \o Distinct(SelectSeq(AllUserEmails, LAMBDA a : a \notin Falsy))

UpdateTaskNotify(r, fail) ==
  /\ req[r].op = "updateTask" /\ req[r].pc = "notify"
  /\ req' = [req EXCEPT
       ![r].pc = "done", ![r].fail = fail,
       ![r].events = Broadcast(fail,
                       <<UpdateTaskEvent(req[r].id, req[r].previous[1],
                                         req[r].task[1])>>),
       ![r].resp = NotifyResp(fail, 200, req[r].updated),
       ![r].emails = UpdateTaskEmails(fail, req[r].dao[1], req[r].previous[1],
                                      req[r].task[1])]
  /\ UNCHANGED <<daos, connectionAttempted, useInMemory, probes, now, year, deletedIds, mail, client>>

\* ---- DELETE /api/dao/:daoId/tasks/:taskId
DeleteTaskStart(r, actor, id, taskId) ==
  /\ FreeSlot(r)
  /\ req' = [req EXCEPT ![r] =
       IF InvalidTaskId(taskId)
       THEN [IdleReq EXCEPT !.op = "deleteTask", !.pc = "done", !.actor = actor,
                            !.id = id, !.taskId = taskId,
                            !.resp = ErrorResp(400, "INVALID_TASK_ID")]
       ELSE [IdleReq EXCEPT !.op = "deleteTask", !.pc = "load", !.actor = actor,
                            !.id = id, !.taskId = taskId]]
  /\ UNCHANGED <<daos, connectionAttempted, useInMemory, probes, now, year, deletedIds, mail, client>>

\* the route cutting the list at the task instead of taking the task out
DeleteTaskLoadTruncating(r) ==
  /\ req[r].op = "deleteTask" /\ req[r].pc = "load"
  /\ connectionAttempted
  /\ LET dao == getDaoById(req[r].id)
     IN IF dao = None THEN Reject(r, 404, "DAO_NOT_FOUND")
        ELSE IF TaskIndex(dao[1].tasks, req[r].taskId) = 0
        THEN Reject(r, 404, "TASK_NOT_FOUND")
        ELSE LET taskIndex == TaskIndex(dao[1].tasks, req[r].taskId)
             IN /\ req' = [req EXCEPT ![r].pc = "persist", ![r].dao = dao,
                                      ![r].task = Some(dao[1].tasks[taskIndex]),
                                      ![r].data = SubSeq(dao[1].tasks, 1, taskIndex - 1)]
                /\ UNCHANGED daos
  /\ UNCHANGED <<connectionAttempted, useInMemory, probes, now, year, deletedIds, mail, client>>

DeleteTaskLoad(r) ==
  /\ req[r].op = "deleteTask" /\ req[r].pc = "load"
  /\ connectionAttempted
  /\ LET dao == getDaoById(req[r].id)
     IN IF dao = None THEN Reject(r, 404, "DAO_NOT_FOUND")
        ELSE IF TaskIndex(dao[1].tasks, req[r].taskId) = 0
        THEN Reject(r, 404, "TASK_NOT_FOUND")
        ELSE LET taskIndex == TaskIndex(dao[1].tasks, req[r].taskId)
             IN /\ req' = [req EXCEPT ![r].pc = "persist", ![r].dao = dao,
                                      ![r].task = Some(dao[1].tasks[taskIndex]),
                                      ![r].data = RemoveAt(dao[1].tasks, taskIndex)]
                /\ UNCHANGED daos
  /\ UNCHANGED <<connectionAttempted, useInMemory, probes, now, year, deletedIds, mail, client>>

DeleteTaskPersist(r) ==
  /\ req[r].op = "deleteTask" /\ req[r].pc = "persist"
  /\ PersistTasks(r)
  /\ deletedIds' = deletedIds \cup {<<req[r].id, req[r].task[1].id>>}
  /\ UNCHANGED <<connectionAttempted, useInMemory, probes, now, year, mail, client>>

DeleteTaskNotify(r, fail) ==
  /\ req[r].op = "deleteTask" /\ req[r].pc = "notify"
  /\ req' = [req EXCEPT
       ![r].pc = "done", ![r].fail = fail,
       ![r].events = Broadcast(fail,
                       <<Event("task_deleted", req[r].id, req[r].task[1].id, <<>>)>>),
       ![r].resp = [NotifyResp(fail, 200, req[r].updated) EXCEPT
                      !.deletedTask = req[r].task]]
  /\ UNCHANGED <<daos, connectionAttempted, useInMemory, probes, now, year, deletedIds, mail, client>>

\* ---- DELETE /api/dao/:id
\* DaoService.deleteDao(id): daoStorage.deleteById / DaoModel.deleteOne; no
\* route calls it
deleteDao(id) == SelectSeq(daos, LAMBDA d : d.id # id)

\* the route as it would be with deletion enabled
DeleteDaoEnabled(r, actor, id) ==
  /\ FreeSlot(r)
  /\ connectionAttempted
  /\ daos' = deleteDao(id)
  /\ req' = [req EXCEPT ![r] =
       [IdleReq EXCEPT !.op = "deleteDao", !.pc = "done", !.actor = actor,
                       !.id = id,
                       !.resp = IF findIndexById(id) = 0
                                THEN ErrorResp(404, "DAO_NOT_FOUND")
                                ELSE [NoResp EXCEPT !.status = 200, !.code = "OK"]]]
  /\ UNCHANGED <<connectionAttempted, useInMemory, probes, now, year, deletedIds, mail, client>>

\* the handler answers 403 and calls nothing
DeleteDao(r, actor, id) ==
  /\ FreeSlot(r)
  /\ req' = [req EXCEPT ![r] =
       [IdleReq EXCEPT !.op = "deleteDao", !.pc = "done", !.actor = actor,
                       !.id = id,
                       !.resp = ErrorResp(403, "DAO_DELETE_DISABLED")]]
  /\ UNCHANGED <<daos, connectionAttempted, useInMemory, probes, now, year, deletedIds, mail, client>>

\* ------------------------------------------------------------- bulk email
\* no call of sendBulkNotification is in progress
NoMail == [pc |-> "idle", toList |-> <<>>, unique |-> <<>>, attempts |-> <<>>, sent |-> 0]

\* const unique = Array.from(new Set(toList.filter(Boolean)))
sendBulkNotification(toList) ==
  /\ mail.pc = "idle"
  /\ mail' = [NoMail EXCEPT
                !.pc = "sending", !.toList = toList,
                !.unique = Distinct(SelectSeq(toList, LAMBDA a : a \notin Falsy))]
  /\ UNCHANGED <<daos, req, connectionAttempted, useInMemory, probes, now, year, deletedIds, client>>

\* one pass of the loop without its try block: a rejected send ends the call
SendNextUnwrapped(ok) ==
  /\ mail.pc = "sending"
  /\ Len(mail.attempts) < Len(mail.unique)
  /\ mail' = [mail EXCEPT
                !.pc = IF ok THEN "sending" ELSE "threw",
                !.attempts = Append(@, [to |-> mail.unique[Len(@) + 1],
                                        delivered |-> ok])]
  /\ UNCHANGED <<daos, req, connectionAttempted, useInMemory, probes, now, year, deletedIds, client>>

\* one pass of the loop: try { await this.sendNotificationEmail(to, ...) }
\* catch (_) {}; the transport delivers (ok) or rejects
SendNext(ok) ==
  /\ mail.pc = "sending"
  /\ Len(mail.attempts) < Len(mail.unique)
  /\ mail' = [mail EXCEPT
                !.attempts = Append(@, [to |-> mail.unique[Len(@) + 1],
                                        delivered |-> ok])]
  /\ UNCHANGED <<daos, req, connectionAttempted, useInMemory, probes, now, year, deletedIds, client>>

\* return { sent: unique.length }
SendBulkReturn ==
  /\ mail.pc = "sending"
  /\ Len(mail.attempts) = Len(mail.unique)
  /\ mail' = [mail EXCEPT !.pc = "returned", !.sent = Len(mail.unique)]
  /\ UNCHANGED <<daos, req, connectionAttempted, useInMemory, probes, now, year, deletedIds, client>>

\* the caller goes on; the next call may start
SendBulkDone ==
  /\ mail.pc \in {"returned", "threw"}
  /\ mail' = NoMail
  /\ UNCHANGED <<daos, req, connectionAttempted, useInMemory, probes, now, year, deletedIds, client>>

\* ------------------------------------------------------------- server
\* a request the server answers before or instead of a route
ServerAnswer(r, resp) ==
  /\ FreeSlot(r)
  /\ req' = [req EXCEPT ![r] = [IdleReq EXCEPT !.op = "server", !.pc = "done",
                                               !.resp = resp]]
  /\ UNCHANGED <<daos, connectionAttempted, useInMemory, probes, now, year, deletedIds, mail, client>>

\* rateLimit({message: {error, retryAfter}}): the limiter answers 429 with its
\* message object
TooManyRequests(r) ==
  ServerAnswer(r, [NoResp EXCEPT
                     !.status = 429, !.code = "undefined",
                     !.error = "Too many requests from this IP, please try again later."])

\* express.json's verify throws Error("Invalid JSON") with status 400, a body
\* over the size limit throws with status 413; next(err) reaches the global
\* error handler
RejectBody(r, status, message) == ServerAnswer(r, errorHandler(status, message))

\* app.use("*"): res.status(404).json({error: "Route not found", path, timestamp})
RouteNotFound(r) ==
  ServerAnswer(r, [NoResp EXCEPT !.status = 404, !.code = "undefined",
                                 !.error = "Route not found"])

\* GET /api/health/smtp: {ok: true}, or 500 {ok: false, error} when the mail
\* transport cannot be verified
SmtpHealth(r, ok) ==
  ServerAnswer(r, IF ok THEN [NoResp EXCEPT !.status = 200, !.code = "OK"]
                  ELSE [NoResp EXCEPT !.status = 500, !.code = "undefined",
                                      !.error = "message"])

\* GET /api/dao: res.json(await DaoService.getAllDaos())
GetAll(r) ==
  /\ FreeSlot(r)
  /\ connectionAttempted
  /\ req' = [req EXCEPT ![r] =
       [IdleReq EXCEPT !.op = "list", !.pc = "done",
                       !.resp = [NoResp EXCEPT !.status = 200, !.code = "OK",
                                               !.list = getAllDaos]]]
  /\ UNCHANGED <<daos, connectionAttempted, useInMemory, probes, now, year, deletedIds, mail, client>>

\* ------------------------------------------------------------- team dialogs
\* the users authService.getAllUsers() offers to the dialogs
Users == {"u2"}

\* convertUserToTeamMember(user, role), and the member addNewMember builds
TeamMember(id, role) == [id |-> id, role |-> role]

IsChef(m) == m.role = "chef_equipe"
IsMembre(m) == m.role = "membre_equipe"

\* the ids of a team
TeamIds(team) == {team[i].id : i \in 1..Len(team)}

\* team.find(m => m.role === "chef_equipe"): the first one, if any
FindChef(team) ==
  LET chefs == SelectSeq(team, IsChef)
  IN  IF chefs = <<>> THEN None ELSE Some(chefs[1])

\* the number of members of role chef_equipe
Chefs(team) == Len(SelectSeq(team, IsChef))

\* the case-file page before a dialog is opened: a team with its lead, and
\* each dialog's tempTeam as useState(currentTeam) left it at mount
NoUi ==
  [team |-> << TeamMember("u1", "chef_equipe") >>,
   open |-> "none",
   tempChef |-> << TeamMember("u1", "chef_equipe") >>,
   tempMembres |-> << TeamMember("u1", "chef_equipe") >>,
   tempAssign |-> << TeamMember("u1", "chef_equipe") >>,
   created |-> 0,
   passed |-> <<>>]

\* what the browser step leaves alone
ServerUnchanged ==
  UNCHANGED <<daos, req, connectionAttempted, useInMemory, probes, now, year, deletedIds, mail>>

\* tempTeam of the TeamEditDialog of the given type
TempOf(type) == IF type = "chef" THEN client.ui.tempChef ELSE client.ui.tempMembres

\* setTempTeam of the TeamEditDialog of the given type
SetTemp(ui, type, team) ==
  IF type = "chef" THEN [ui EXCEPT !.tempChef = team]
                   ELSE [ui EXCEPT !.tempMembres = team]

\* the trigger button of a dialog: setOpen(true)
OpenDialog(d) ==
  /\ client.ui.open = "none"
  /\ client' = [client EXCEPT !.ui = [@ EXCEPT !.open = d]]
  /\ ServerUnchanged

\* TeamEditDialog.addExistingMember: a user who is not in currentTeam
addExistingMember(type, user) ==
  LET temp == TempOf(type)
      member == TeamMember(user, IF type = "chef" THEN "chef_equipe" ELSE "membre_equipe")
      next == IF type = "chef"
                THEN SelectSeq(temp, IsMembre) \o <<member>>
                ELSE IF user \in TeamIds(temp) THEN temp ELSE Append(temp, member)
  IN  /\ client.ui.open = type
      /\ user \notin TeamIds(client.ui.team)
      /\ Len(next) <= MaxTeam
      /\ client' = [client EXCEPT !.ui = SetTemp(@, type, next)]
      /\ ServerUnchanged

\* TeamEditDialog.addNewMember: a member typed in, with a fresh id
addNewMember(type) ==
  LET temp == TempOf(type)
      id == IF client.ui.created = 0 THEN "n1" ELSE "n2"
      next == IF type = "chef"
                THEN SelectSeq(temp, IsMembre) \o << TeamMember(id, "chef_equipe") >>
                ELSE Append(temp, TeamMember(id, "membre_equipe"))
  IN  /\ client.ui.open = type
      /\ client.ui.created < MaxNewMembers
      /\ Len(next) <= MaxTeam
      /\ client' = [client EXCEPT !.ui = [SetTemp(@, type, next) EXCEPT !.created = @ + 1]]
      /\ ServerUnchanged

\* TeamEditDialog.removeMember
removeMember(type, id) ==
  LET Others(m) == m.id # id
  IN  /\ client.ui.open = type
      /\ \E m \in Range(TempOf(type)) :
           m.id = id /\ m.role = (IF type = "chef" THEN "chef_equipe" ELSE "membre_equipe")
      /\ client' = [client EXCEPT !.ui = SetTemp(@, type, SelectSeq(TempOf(type), Others))]
      /\ ServerUnchanged

\* the team TeamEditDialog.handleSave passes to onTeamUpdate
MergedTeam(type, currentTeam, tempTeam) ==
  IF type = "chef"
    THEN SelectSeq(currentTeam, IsMembre) \o FindChef(tempTeam)
    ELSE FindChef(currentTeam) \o SelectSeq(tempTeam, IsMembre)

\* the parent takes the team: the TaskAssignmentDialog effect on
\* availableMembers copies it into its tempTeam
TeamUpdate(ui, team) ==
  [ui EXCEPT !.team = team, !.tempAssign = team, !.passed = team, !.open = "none"]

\* TeamEditDialog.handleSave
TeamEditSave(type) ==
  /\ client.ui.open = type
  /\ client' = [client EXCEPT
       !.ui = TeamUpdate(@, MergedTeam(type, client.ui.team, TempOf(type)))]
  /\ ServerUnchanged

\* TeamEditDialog.handleCancel
TeamEditCancel(type) ==
  /\ client.ui.open = type
  /\ client' = [client EXCEPT !.ui = [SetTemp(@, type, client.ui.team) EXCEPT !.open = "none"]]
  /\ ServerUnchanged

\* TaskAssignmentDialog.addMemberToTeam: "+ Membre" or "+ Chef" on a user
\* who is not in tempTeam
addMemberToTeam(user, role) ==
  /\ client.ui.open = "assign"
  /\ user \notin TeamIds(client.ui.tempAssign)
  /\ Len(client.ui.tempAssign) < MaxTeam
  /\ client' = [client EXCEPT
       !.ui = [@ EXCEPT !.tempAssign = Append(@, TeamMember(user, role))]]
  /\ ServerUnchanged

\* TaskAssignmentDialog.removeMemberFromTeam
removeMemberFromTeam(id) ==
  LET Others(m) == m.id # id
  IN  /\ client.ui.open = "assign"
      /\ id \in TeamIds(client.ui.tempAssign)
      /\ client' = [client EXCEPT !.ui = [@ EXCEPT !.tempAssign = SelectSeq(@, Others)]]
      /\ ServerUnchanged

\* TaskAssignmentDialog.handleSave: the team is passed on when its length
\* has changed
AssignSave ==
  /\ client.ui.open = "assign"
  /\ client' = [client EXCEPT
       !.ui = IF Len(@.tempAssign) # Len(@.team)
                THEN TeamUpdate(@, @.tempAssign)
                ELSE [@ EXCEPT !.open = "none"]]
  /\ ServerUnchanged

\* TaskAssignmentDialog.handleCancel
AssignCancel ==
  /\ client.ui.open = "assign"
  /\ client' = [client EXCEPT !.ui = [@ EXCEPT !.tempAssign = client.ui.team, !.open = "none"]]
  /\ ServerUnchanged

\* ------------------------------------------------------------- comment cache
\* the callers of commentService.getDaoComments for one case file
Callers == {1, 2}

\* the requests GET /dao/:daoId that getDaoComments sends, in order of sending
FetchIds == 1..MaxFetches

\* a request that has not been sent
NoFetch == [pc |-> "none", data |-> 0]

\* a caller outside getDaoComments
NoCall == [pc |-> "idle", data |-> 0, need |-> 0, fetch |-> 0]

\* the comment service at start-up: daoCommentsCache and inFlight are empty.
\* A comment list is represented by the number of mutations the server had
\* applied when it was read
NoComments ==
  [version |-> 0,
   cache |-> None,
   fetches |-> [f \in FetchIds |-> NoFetch],
   inFlight |-> 0,
   mut |-> [pc |-> "idle", kind |-> "none"],
   resolved |-> 0,
   calls |-> [c \in Callers |-> NoCall]]

\* a step of the comment service
SetComments(comments) ==
  /\ client' = [client EXCEPT !.comments = comments]
  /\ ServerUnchanged

\* getDaoComments returns `data` to caller c
Returned(call, data) == [call EXCEPT !.pc = "done", !.data = data]

\* getDaoComments: the cache entry is younger than CACHE_TTL
GetCached(c) ==
  LET cm == client.comments
  IN  /\ cm.calls[c].pc # "waiting"
      /\ cm.cache # None /\ cm.cache[1].fresh
      /\ SetComments([cm EXCEPT
           !.calls[c] = Returned([NoCall EXCEPT !.need = cm.resolved], cm.cache[1].data)])

\* no usable cache entry
CacheMiss(cm) == IF cm.cache = None THEN TRUE ELSE ~cm.cache[1].fresh

\* getDaoComments: a request is in flight, its promise is returned
GetJoin(c) ==
  LET cm == client.comments
  IN  /\ cm.calls[c].pc # "waiting"
      /\ CacheMiss(cm)
      /\ cm.inFlight # 0
      /\ SetComments([cm EXCEPT
           !.calls[c] = [NoCall EXCEPT !.pc = "waiting", !.need = cm.resolved,
                                       !.fetch = cm.inFlight]])

\* getDaoComments: the request is sent and its promise registered in inFlight
GetStart(c) ==
  LET cm == client.comments
  IN  /\ cm.calls[c].pc # "waiting"
      /\ CacheMiss(cm)
      /\ cm.inFlight = 0
      /\ \E f \in FetchIds :
           /\ cm.fetches[f].pc = "none"
           /\ \A g \in 1..(f - 1) : cm.fetches[g].pc # "none"
           /\ SetComments([cm EXCEPT
                !.fetches[f] = [NoFetch EXCEPT !.pc = "sent"],
                !.inFlight = f,
                !.calls[c] = [NoCall EXCEPT !.pc = "waiting", !.need = cm.resolved,
                                            !.fetch = f]])

\* the server reads the comment list for request f
ServerRead(f) ==
  LET cm == client.comments
  IN  /\ cm.fetches[f].pc = "sent"
      /\ SetComments([cm EXCEPT !.fetches[f] = [pc |-> "read", data |-> cm.version]])

\* inFlight.delete(daoId) in the finally block of a request: whatever promise
\* is registered for the case file is removed
FetchFinally(cm) == [cm EXCEPT !.inFlight = 0]

\* the callers that hold the promise of request f resume
Resume(cm, f, pc, data) ==
  [cm EXCEPT !.calls = [c \in Callers |->
     IF cm.calls[c].pc = "waiting" /\ cm.calls[c].fetch = f
       THEN [cm.calls[c] EXCEPT !.pc = pc, !.data = data]
       ELSE cm.calls[c]]]

\* the response of request f arrives: daoCommentsCache.set(daoId, {data, ts})
FetchResolve(f) ==
  LET cm == client.comments
      data == cm.fetches[f].data
  IN  /\ cm.fetches[f].pc = "read"
      /\ SetComments(FetchFinally(Resume(
           [cm EXCEPT !.fetches[f].pc = "done",
                      !.cache = Some([data |-> data, fresh |-> TRUE])],
           f, "done", data)))

\* request f fails: the stale cache entry is returned if there is one
FetchReject(f) ==
  LET cm == client.comments
  IN  /\ cm.fetches[f].pc \in {"sent", "read"}
      /\ SetComments(FetchFinally(
           IF cm.cache # None
             THEN Resume([cm EXCEPT !.fetches[f].pc = "done"], f, "done", cm.cache[1].data)
             ELSE Resume([cm EXCEPT !.fetches[f].pc = "done"], f, "failed", 0)))

\* CACHE_TTL has passed since the cache entry was stored
CacheExpires ==
  LET cm == client.comments
  IN  /\ cm.cache # None /\ cm.cache[1].fresh
      /\ SetComments([cm EXCEPT !.cache = Some([@[1] EXCEPT !.fresh = FALSE])])

\* addComment, updateComment or deleteComment sends its request
MutateStart(kind) ==
  LET cm == client.comments
  IN  /\ cm.mut.pc = "idle"
      /\ cm.version < MaxMutations
      /\ SetComments([cm EXCEPT !.mut = [pc |-> "sent", kind |-> kind]])

\* the server applies the mutation
ServerMutate ==
  LET cm == client.comments
  IN  /\ cm.mut.pc = "sent"
      /\ SetComments([cm EXCEPT !.mut.pc = "applied", !.version = @ + 1])

\* the mutation resolves: daoCommentsCache.delete(daoId) / clear() and
\* inFlight.delete(daoId) / clear()
MutateResolve ==
  LET cm == client.comments
  IN  /\ cm.mut.pc = "applied"
      /\ SetComments([cm EXCEPT !.mut = [pc |-> "idle", kind |-> "none"],
                                !.cache = None, !.inFlight = 0,
                                !.resolved = cm.version])

\* the mutation's request throws: nothing is invalidated
MutateReject ==
  LET cm == client.comments
  IN  /\ cm.mut.pc \in {"sent", "applied"}
      /\ SetComments([cm EXCEPT !.mut = [pc |-> "idle", kind |-> "none"]])

\* ------------------------------------------------------------- secure fetch
\* what the catch block reads off an error's message: "global scope is
\* shutting down"; "messagehandler", "fs.js" or "fullstory"; "Failed to
\* fetch", "network", "timeout" or "AbortError"
Errors == [scope : BOOLEAN, intercepted : BOOLEAN, network : BOOLEAN]

\* isRetriableError
isRetriableError(e) == e.network \/ e.scope \/ e.intercepted

\* the delay of every retry, whatever the attempt
DelayConstant(retryDelay, attempt) == retryDelay

\* const delay = retryDelay * Math.pow(2, attempt)
Delay(retryDelay, attempt) == retryDelay * 2^attempt

\* no call of SecureFetch.fetch has been made
NoSecureFetch ==
  [pc |-> "idle", retryDelay |-> 0, attempt |-> 0, maxRetries |-> 0,
   tries |-> 0, failures |-> <<>>, waits |-> <<>>, delay |-> 0,
   forceWindowFetch |-> FALSE, forceFreshNative |-> FALSE]

NoClient == [ui |-> NoUi, comments |-> NoComments, secureFetch |-> NoSecureFetch]

\* a step of SecureFetch.fetch
SetSecureFetch(sf) ==
  /\ client' = [client EXCEPT !.secureFetch = sf]
  /\ ServerUnchanged

\* SecureFetch.fetch(url, {useNativeFetch, maxRetries, retryDelay}) up to the
\* await of its first attempt
FetchBegin(useNativeFetch, maxRetries, retryDelay) ==
  /\ client.secureFetch.pc \in {"idle", "returned", "thrown"}
  /\ SetSecureFetch([NoSecureFetch EXCEPT
       !.pc = "fetching", !.maxRetries = maxRetries, !.retryDelay = retryDelay,
       !.tries = 1, !.forceFreshNative = useNativeFetch])

\* the attempt's fetch resolves: return response
FetchResponse ==
  /\ client.secureFetch.pc = "fetching"
  /\ SetSecureFetch([client.secureFetch EXCEPT !.pc = "returned"])

\* the attempt throws e: the catch block, up to the next await or the throw
FetchError(e) ==
  LET sf == client.secureFetch
      failed == [sf EXCEPT !.failures = Append(@, e)]
      again == [failed EXCEPT !.pc = "fetching", !.attempt = @ + 1, !.tries = @ + 1,
                              !.waits = Append(@, 0)]
  IN  /\ sf.pc = "fetching"
      /\ SetSecureFetch(
           IF e.scope /\ sf.attempt < sf.maxRetries
             THEN [again EXCEPT !.forceWindowFetch = TRUE]
           ELSE IF e.intercepted /\ sf.attempt < sf.maxRetries
             THEN [again EXCEPT !.forceFreshNative = TRUE, !.forceWindowFetch = FALSE]
           ELSE IF sf.attempt = sf.maxRetries \/ ~isRetriableError(e)
             THEN [failed EXCEPT !.pc = "thrown"]
           ELSE [failed EXCEPT !.pc = "waiting",
                               !.delay = Delay(sf.retryDelay, sf.attempt)])

\* the timer of the retry fires: the next attempt
RetryTimer ==
  LET sf == client.secureFetch
  IN  /\ sf.pc = "waiting"
      /\ SetSecureFetch([sf EXCEPT !.pc = "fetching", !.attempt = @ + 1, !.tries = @ + 1,
                                   !.waits = Append(@, sf.delay), !.delay = 0])

\* ------------------------------------------------------------- environment
\* tryConnect, run by the first storage call: the probe succeeds or fails
TryConnect(ok) ==
  /\ ~connectionAttempted
  /\ connectionAttempted' = TRUE
  /\ useInMemory' = ~ok
  /\ probes' = Append(probes, IF ok THEN "connected" ELSE "failed")
  /\ UNCHANGED <<daos, req, now, year, deletedIds, mail, client>>

\* tryConnect up to its await, without the connectionAttempted flag
TryConnectBeginFlagAfter ==
  /\ ~connectionAttempted
  /\ Len(probes) < 2
  /\ probes' = Append(probes, "pending")
  /\ UNCHANGED <<daos, req, connectionAttempted, useInMemory, now, year, deletedIds, mail, client>>

\* tryConnect up to its await: the flag is raised before connectToDatabase()
\* is called, so a storage call that arrives during the probe returns
\* !useInMemory at once
TryConnectBegin ==
  /\ ~connectionAttempted
  /\ connectionAttempted' = TRUE
  /\ probes' = Append(probes, "pending")
  /\ UNCHANGED <<daos, req, useInMemory, now, year, deletedIds, mail, client>>

\* connectToDatabase() resolves (ok) or rejects
TryConnectEnd(ok) ==
  /\ \E i \in 1..Len(probes) :
       /\ probes[i] = "pending"
       /\ probes' = [probes EXCEPT ![i] = IF ok THEN "connected" ELSE "failed"]
  /\ useInMemory' = ~ok
  /\ UNCHANGED <<daos, req, connectionAttempted, now, year, deletedIds, mail, client>>

\* a millisecond passes
TickUpTo(max) ==
  /\ now < max
  /\ now' = now + 1
  /\ UNCHANGED <<daos, req, connectionAttempted, useInMemory, probes, year, deletedIds, mail, client>>

Tick == TickUpTo(MaxClock)

\* the calendar year rolls over
NewYear ==
  /\ year < 2025 + MaxYearTicks
  /\ year' = year + 1
  /\ UNCHANGED <<daos, req, connectionAttempted, useInMemory, probes, now, deletedIds, mail, client>>

\* the response has been sent: the slot is free again
Finish(r) ==
  /\ req[r].pc = "done"
  /\ req' = [req EXCEPT ![r] = IdleReq]
  /\ UNCHANGED <<daos, connectionAttempted, useInMemory, probes, now, year, deletedIds, mail, client>>

Init ==
  /\ daos = <<>>
  /\ req = [r \in Requests |-> IdleReq]
  /\ connectionAttempted = FALSE
  /\ useInMemory = FALSE
  /\ probes = <<>>
  /\ now = 0
  /\ year = 2025
  /\ deletedIds = {}
  /\ mail = NoMail
  /\ client = NoClient

\* ------------------------------------------------------------- inputs
Admin == "admin"

\* the case-file ids a request may address: every id the clock can produce
IdParams == 0..MaxClock

Team1 ==
  << [id |-> <<"m", "1">>, name |-> <<"A">>, role |-> "chef_equipe",
      email |-> "a@x.io"] >>

\* "DAO-2025-" followed by sfx
Num2025(sfx) == <<"D", "A", "O", "-", "2", "0", "2", "5", "-">> \o sfx

\* a valid create body with this sequence number and these tasks
CreateBody(numero, tasks) ==
  [numeroListe |-> numero, objetDossier |-> <<"o">>, reference |-> <<"r">>,
   autoriteContractante |-> <<"c">>, equipe |-> Some(Team1), tasks |-> tasks,
   dateDepot |-> "2025-01-15"]

\* a create body that asks for an allocated number and the template tasks
TemplateBody == CreateBody(Num2025(<<"0", "0", "1">>), None)

EmptyUpdate ==
  [numeroListe |-> Undefined, objetDossier |-> Undefined, reference |-> Undefined,
   autoriteContractante |-> Undefined, equipe |-> None, tasks |-> None,
   dateDepot |-> "undefined"]

\* a task as a client sends it inside a case-file body
TaskIn(id, name, applicable, progress) ==
  [id |-> id, name |-> name, progress |-> progress, comment |-> Undefined,
   isApplicable |-> applicable, assignedTo |-> Undefined,
   lastUpdatedBy |-> NoActor, lastUpdatedAt |-> NoTime]

RECURSIVE SeqsUpTo(_, _)
\* the sequences over S of length at most n
SeqsUpTo(S, n) ==
  IF n = 0 THEN {<<>>}
  ELSE LET shorter == SeqsUpTo(S, n - 1)
       IN shorter \cup {Append(q, x) : q \in shorter, x \in S}

\* ------------------------------------------------------------- reorder
\* task lists a client writes with PUT /api/dao/:id
ReorderTaskLists ==
  { <<TaskIn(1, <<"a">>, TRUE, Null), TaskIn(1, <<"b">>, TRUE, Null)>>,
    <<TaskIn(1, <<"a">>, TRUE, Null), TaskIn(2, <<"b">>, TRUE, Null),
      TaskIn(3, <<"c">>, TRUE, Null)>> }

\* the taskIds of a reorder body: not an array, or any list of up to MaxTasks ids
ReorderInputs == {None} \cup {Some(q) : q \in SeqsUpTo(1..MaxTasks, MaxTasks)}

NextReorder ==
  \/ \E ok \in BOOLEAN : TryConnect(ok)
  \/ \E r \in Sequential : Len(daos) = 0 /\ CreateStart(r, Admin, TemplateBody)
  \/ \E r \in Sequential : CreateDaoEnter(r)
  \/ \E r \in Sequential : CreateAlloc(r)
  \/ \E r \in Sequential : CreateSave(r)
  \/ \E r \in Sequential : CreateNotify(r, "none")
  \/ \E r \in Sequential, id \in IdParams, tasks \in ReorderTaskLists :
       UpdateStart(r, Admin, id, [EmptyUpdate EXCEPT !.tasks = Some(tasks)])
  \/ \E r \in Sequential : UpdateLoad(r)
  \/ \E r \in Sequential : UpdatePersist(r)
  \/ \E r \in Sequential : UpdateNotify(r, "none")
  \/ \E r \in Sequential, id \in IdParams, taskIds \in ReorderInputs :
       ReorderStart(r, Admin, id, taskIds)
  \/ \E r \in Sequential : ReorderLoad(r)
  \/ \E r \in Sequential : ReorderPersist(r)
  \/ \E r \in Sequential, fail \in FailPoints : ReorderNotify(r, fail)
  \/ \E r \in Sequential : Finish(r)

\* create, replace the task list, reorder
SpecReorder == Init /\ [][NextReorder]_vars

\* ------------------------------------------------------------- tasks
\* a create body with one task that is not applicable but carries a progress
InapplicableBody ==
  CreateBody(Num2025(<<"0", "0", "1">>), Some(<<TaskIn(1, <<"a">>, FALSE, 50)>>))

\* task lists a client writes with PUT /api/dao/:id
WrittenTaskLists ==
  { <<TaskIn(2, <<"a">>, TRUE, 50), TaskIn(3, <<"b">>, FALSE, 50)>> }

\* add-task bodies
AddTaskBodies ==
  [name : {<<"n">>}, progress : {Null, 50}, comment : {Undefined},
   isApplicable : BOOLEAN, assignedTo : {Undefined}]

\* update-task bodies
UpdateTaskBodies ==
  { [progress |-> p, comment |-> Undefined, isApplicable |-> a,
     assignedTo |-> Undefined] :
      p \in {None, Some(50)}, a \in {None, Some(FALSE)} }
  \cup { [progress |-> None, comment |-> Undefined, isApplicable |-> Some(TRUE),
          assignedTo |-> Undefined] }

\* the task ids a request may address (0 is not a valid task id)
TaskIdParams == 0..MaxTasks

NextTasks ==
  \/ \E ok \in BOOLEAN : TryConnect(ok)
  \/ \E r \in Sequential, body \in {TemplateBody, InapplicableBody} :
       Len(daos) = 0 /\ CreateStart(r, Admin, body)
  \/ \E r \in Sequential : CreateDaoEnter(r)
  \/ \E r \in Sequential : CreateAlloc(r)
  \/ \E r \in Sequential : CreateSave(r)
  \/ \E r \in Sequential : CreateNotify(r, "none")
  \/ \E r \in Sequential, id \in IdParams, tasks \in WrittenTaskLists :
       UpdateStart(r, Admin, id, [EmptyUpdate EXCEPT !.tasks = Some(tasks)])
  \/ \E r \in Sequential : UpdateLoad(r)
  \/ \E r \in Sequential : UpdatePersist(r)
  \/ \E r \in Sequential : UpdateNotify(r, "none")
  \/ \E r \in Sequential, id \in IdParams, body \in AddTaskBodies :
       AddTaskStart(r, Admin, id, body)
  \/ \E r \in Sequential : AddTaskLoad(r)
  \/ \E r \in Sequential : AddTaskPersist(r)
  \/ \E r \in Sequential : AddTaskNotify(r, "none")
  \/ \E r \in Sequential, id \in IdParams, taskId \in TaskIdParams,
        body \in UpdateTaskBodies :
       UpdateTaskStart(r, Admin, id, taskId, body)
  \/ \E r \in Sequential : UpdateTaskLoad(r)
  \/ \E r \in Sequential : UpdateTaskPersist(r)
  \/ \E r \in Sequential : UpdateTaskNotify(r, "none")
  \/ \E r \in Sequential, id \in IdParams, taskId \in TaskIdParams :
       DeleteTaskStart(r, Admin, id, taskId)
  \/ \E r \in Sequential : DeleteTaskLoad(r)
  \/ \E r \in Sequential : DeleteTaskPersist(r)
  \/ \E r \in Sequential : DeleteTaskNotify(r, "none")
  \/ \E r \in Sequential : Finish(r)

\* create, replace the task list, add, update and delete tasks
SpecTasks == Init /\ [][NextTasks]_vars

\* ------------------------------------------------------------- numbering
\* the sequence numbers a client sends when it creates a case file: none, the
\* ...001 sentinel, and numbers of its own choice
CreateNumbers ==
  { Undefined,
    Num2025(<<"0", "0", "1">>),
    Num2025(<<"0", "0", "4">>),
    Num2025(<<"9", "9", "9">>),
    Num2025(<<"1", "0", "0", "0">>) }

\* the sequence numbers a client sends when it updates a case file
UpdateNumbers == { Num2025(<<"0", "0", "4">>), Num2025(<<"9", "9", "9">>) }

NextNumbering ==
  \/ \E ok \in BOOLEAN : TryConnect(ok)
  \/ Tick
  \/ NewYear
  \/ \E r \in Sequential, numero \in CreateNumbers :
       CreateStart(r, Admin, CreateBody(numero, None))
  \/ \E r \in Sequential : CreateDaoEnter(r)
  \/ \E r \in Sequential : CreateAlloc(r)
  \/ \E r \in Sequential : CreateSave(r)
  \/ \E r \in Sequential : CreateNotify(r, "none")
  \/ \E r \in Sequential, id \in IdParams, numero \in UpdateNumbers :
       UpdateStart(r, Admin, id, [EmptyUpdate EXCEPT !.numeroListe = numero])
  \/ \E r \in Sequential : UpdateLoad(r)
  \/ \E r \in Sequential : UpdatePersist(r)
  \/ \E r \in Sequential : UpdateNotify(r, "none")
  \/ \E r \in Sequential : NextNumber(r)
  \/ \E r \in Sequential : Finish(r)

\* create and renumber case files, ask for the next number, across a new year
SpecNumbering == Init /\ [][NextNumbering]_vars

\* ------------------------------------------------------------- concurrent creates
NextCreate ==
  \/ \E ok \in BOOLEAN : TryConnect(ok)
  \/ Tick
  \/ \E r \in Requests, numero \in {Num2025(<<"0", "0", "1">>),
                                    Num2025(<<"0", "0", "2">>)} :
       CreateStart(r, Admin, CreateBody(numero, None))
  \/ \E r \in Requests : CreateDaoEnter(r)
  \/ \E r \in Requests : CreateAlloc(r)
  \/ \E r \in Requests : CreateSave(r)
  \/ \E r \in Requests, fail \in FailPoints : CreateNotify(r, fail)
  \/ \E r \in Requests : Finish(r)

\* create requests that interleave at their awaits
SpecCreate == Init /\ [][NextCreate]_vars

\* ------------------------------------------------------------- every mutation
\* one request of every mutating route at a time, any collaborator failing
\* while it notifies
NextMutations ==
  \/ \E ok \in BOOLEAN : TryConnect(ok)
  \/ \E r \in Sequential : Len(daos) = 0 /\ CreateStart(r, Admin, TemplateBody)
  \/ \E r \in Sequential : CreateDaoEnter(r)
  \/ \E r \in Sequential : CreateAlloc(r)
  \/ \E r \in Sequential : CreateSave(r)
  \/ \E r \in Sequential, fail \in FailPoints : CreateNotify(r, fail)
  \/ \E r \in Sequential, id \in IdParams :
       UpdateStart(r, Admin, id, [EmptyUpdate EXCEPT !.objetDossier = <<"p">>])
  \/ \E r \in Sequential : UpdateLoad(r)
  \/ \E r \in Sequential : UpdatePersist(r)
  \/ \E r \in Sequential, fail \in FailPoints : UpdateNotify(r, fail)
  \/ \E r \in Sequential, id \in IdParams :
       ReorderStart(r, Admin, id, Some(<<2, 1>>))
  \/ \E r \in Sequential : ReorderLoad(r)
  \/ \E r \in Sequential : ReorderPersist(r)
  \/ \E r \in Sequential, fail \in FailPoints : ReorderNotify(r, fail)
  \/ \E r \in Sequential, id \in IdParams :
       AddTaskStart(r, Admin, id,
                    [name |-> <<"n">>, progress |-> Null, comment |-> Undefined,
                     isApplicable |-> TRUE, assignedTo |-> Undefined])
  \/ \E r \in Sequential : AddTaskLoad(r)
  \/ \E r \in Sequential : AddTaskPersist(r)
  \/ \E r \in Sequential, fail \in FailPoints : AddTaskNotify(r, fail)
  \/ \E r \in Sequential, id \in IdParams : RenameStart(r, Admin, id, 1, <<"z">>)
  \/ \E r \in Sequential : RenameLoad(r)
  \/ \E r \in Sequential : RenamePersist(r)
  \/ \E r \in Sequential, fail \in FailPoints : RenameNotify(r, fail)
  \/ \E r \in Sequential, id \in IdParams :
       UpdateTaskStart(r, Admin, id, 2,
                       [progress |-> Some(50), comment |-> Undefined,
                        isApplicable |-> None, assignedTo |-> <<"m", "1">>])
  \/ \E r \in Sequential : UpdateTaskLoad(r)
  \/ \E r \in Sequential : UpdateTaskPersist(r)
  \/ \E r \in Sequential, fail \in FailPoints : UpdateTaskNotify(r, fail)
  \/ \E r \in Sequential, id \in IdParams, taskId \in {1, 2} :
       DeleteTaskStart(r, Admin, id, taskId)
  \/ \E r \in Sequential : DeleteTaskLoad(r)
  \/ \E r \in Sequential : DeleteTaskPersist(r)
  \/ \E r \in Sequential, fail \in FailPoints : DeleteTaskNotify(r, fail)
  \/ \E r \in Sequential, id \in IdParams : DeleteDao(r, Admin, id)
  \/ \E r \in Sequential : Finish(r)

SpecMutations == Init /\ [][NextMutations]_vars

\* ------------------------------------------------------------- assignment
\* update-task bodies that assign, reassign and unassign a task, alone or
\* together with a progress value
AssignBodies ==
  { [progress |-> p, comment |-> Undefined, isApplicable |-> None,
     assignedTo |-> a] :
      p \in {None, Some(50)},
      a \in {Undefined, <<"m", "1">>, <<"m", "2">>, <<>>} }

NextAssign ==
  \/ \E ok \in BOOLEAN : TryConnect(ok)
  \/ \E r \in Sequential : Len(daos) = 0 /\ CreateStart(r, Admin, TemplateBody)
  \/ \E r \in Sequential : CreateDaoEnter(r)
  \/ \E r \in Sequential : CreateAlloc(r)
  \/ \E r \in Sequential : CreateSave(r)
  \/ \E r \in Sequential : CreateNotify(r, "none")
  \/ \E r \in Sequential, id \in IdParams, taskId \in {1, 2}, body \in AssignBodies :
       UpdateTaskStart(r, Admin, id, taskId, body)
  \/ \E r \in Sequential : UpdateTaskLoad(r)
  \/ \E r \in Sequential : UpdateTaskPersist(r)
  \/ \E r \in Sequential, fail \in FailPoints : UpdateTaskNotify(r, fail)
  \/ \E r \in Sequential : Finish(r)

\* one case file whose tasks are assigned and reassigned
SpecAssign == Init /\ [][NextAssign]_vars

\* ------------------------------------------------------------- update case file
\* a team that renames nobody, changes the role of m1 and adds m2
Team2 ==
  << [id |-> <<"m", "1">>, name |-> <<"A">>, role |-> "membre_equipe",
      email |-> "a@x.io"],
     [id |-> <<"m", "2">>, name |-> <<"<", "b", ">", "B">>, role |-> "chef_equipe",
      email |-> "undefined"] >>

\* task lists of PUT /api/dao/:id bodies: progress and assignee of task 1
\* changed; task 1 made inapplicable with a marked-up comment and a task added
UpdateTaskLists ==
  { <<[TaskIn(1, <<"t", "1">>, TRUE, 50) EXCEPT !.assignedTo = <<"m", "1">>],
      TaskIn(2, <<"t", "2">>, TRUE, Null)>>,
    <<[TaskIn(1, <<"t", "1">>, FALSE, 50) EXCEPT !.comment = <<"<", "i", ">", "x">>],
      TaskIn(3, <<"<", "u", ">">>, TRUE, Null)>> }

\* PUT /api/dao/:id bodies: every field absent or present, strings with markup
\* and strings that trim to nothing
UpdateBodies ==
  { [numeroListe |-> n, objetDossier |-> o, reference |-> Undefined,
     autoriteContractante |-> Undefined, equipe |-> e, tasks |-> t,
     dateDepot |-> d] :
      n \in {Undefined, Num2025(<<"0", "0", "4">>)},
      o \in {Undefined, <<"p">>, <<"<", "b", ">", "q">>, <<" ">>},
      e \in {None, Some(Team2)},
      t \in {None} \cup {Some(l) : l \in UpdateTaskLists},
      d \in {"undefined", "2025-02-01"} }

NextUpdate ==
  \/ \E ok \in BOOLEAN : TryConnect(ok)
  \/ \E r \in Sequential : Len(daos) = 0 /\ CreateStart(r, Admin, TemplateBody)
  \/ \E r \in Sequential : CreateDaoEnter(r)
  \/ \E r \in Sequential : CreateAlloc(r)
  \/ \E r \in Sequential : CreateSave(r)
  \/ \E r \in Sequential : CreateNotify(r, "none")
  \/ \E r \in Sequential, id \in IdParams, body \in UpdateBodies :
       UpdateStart(r, Admin, id, body)
  \/ \E r \in Sequential : UpdateLoad(r)
  \/ \E r \in Sequential : UpdatePersist(r)
  \/ \E r \in Sequential, fail \in {"none", "users"} : UpdateNotify(r, fail)
  \/ \E r \in Sequential : Finish(r)

\* one case file updated again and again through PUT /api/dao/:id
SpecUpdate == Init /\ [][NextUpdate]_vars

\* the connection probe in flight while storage calls arrive: reads and
\* updates of an empty store from both request slots
NextConnect ==
  \/ TryConnectBegin
  \/ \E ok \in BOOLEAN : TryConnectEnd(ok)
  \/ Tick
  \/ NewYear
  \/ \E r \in Requests :
       \/ NextNumber(r)
       \/ \E id \in IdParams : UpdateStart(r, Admin, id, EmptyUpdate)
       \/ UpdateLoad(r)
       \/ UpdatePersist(r)
       \/ Finish(r)

SpecConnect == Init /\ [][NextConnect]_vars

\* ------------------------------------------------------------- interleaved writers
\* requests that change the case file created first: a header update, two
\* task updates and an added task
RaceTaskBody(taskId) ==
  IF taskId = 1
  THEN [progress |-> Some(50), comment |-> Undefined, isApplicable |-> None,
        assignedTo |-> Undefined]
  ELSE [progress |-> None, comment |-> <<"c">>, isApplicable |-> None,
        assignedTo |-> Undefined]

NextRace ==
  \/ \E ok \in BOOLEAN : TryConnect(ok)
  \/ \E r \in Requests : Len(daos) = 0 /\ CreatesInFlight = 0
                         /\ CreateStart(r, Admin, TemplateBody)
  \/ \E r \in Requests : CreateDaoEnter(r)
  \/ \E r \in Requests : CreateAlloc(r)
  \/ \E r \in Requests : CreateSave(r)
  \/ \E r \in Requests : CreateNotify(r, "none")
  \/ \E r \in Requests : Len(daos) > 0 /\ UpdateStart(r, Admin, 0,
                                     [EmptyUpdate EXCEPT !.objetDossier = <<"p">>])
  \/ \E r \in Requests : UpdateLoad(r)
  \/ \E r \in Requests : UpdatePersist(r)
  \/ \E r \in Requests : UpdateNotify(r, "none")
  \/ \E r \in Requests, taskId \in {1, 2} :
       Len(daos) > 0 /\ UpdateTaskStart(r, Admin, 0, taskId, RaceTaskBody(taskId))
  \/ \E r \in Requests : UpdateTaskLoad(r)
  \/ \E r \in Requests : UpdateTaskPersist(r)
  \/ \E r \in Requests : UpdateTaskNotify(r, "none")
  \/ \E r \in Requests, body \in AddTaskBodies :
       /\ Len(daos) > 0 /\ body.progress = Null /\ body.isApplicable
       /\ AddTaskStart(r, Admin, 0, body)
  \/ \E r \in Requests : AddTaskLoad(r)
  \/ \E r \in Requests : AddTaskPersist(r)
  \/ \E r \in Requests : AddTaskNotify(r, "none")
  \/ \E r \in Requests : Finish(r)

\* two requests in flight on one case file
SpecRace == Init /\ [][NextRace]_vars

\* ------------------------------------------------------------- bulk email
\* recipient lists: two addresses, repeated, with empty and missing entries
MaxRecipients == 3

NextMail ==
  \/ \E toList \in SeqsUpTo({"a@x.io", "b@x.io", "", "undefined"}, MaxRecipients) :
       sendBulkNotification(toList)
  \/ \E ok \in BOOLEAN : SendNext(ok)
  \/ SendBulkReturn
  \/ SendBulkDone

SpecMail == Init /\ [][NextMail]_vars

\* ------------------------------------------------------------- server answers
\* the mutating routes behind the server's own answers: rate limiting, body
\* parsing, the 404 handler, the global error handler and the SMTP health check
NextServer ==
  \/ NextMutations
  \/ \E r \in Sequential : TooManyRequests(r)
  \/ \E r \in Sequential : RejectBody(r, 400, "Invalid JSON")
  \/ \E r \in Sequential : RejectBody(r, 413, "request entity too large")
  \/ \E r \in Sequential : RouteNotFound(r)
  \/ \E r \in Sequential, ok \in BOOLEAN : SmtpHealth(r, ok)

SpecServer == Init /\ [][NextServer]_vars

\* ------------------------------------------------------------- listing
\* case files created and updated while the clock advances, and listed
NextList ==
  \/ \E ok \in BOOLEAN : TryConnect(ok)
  \/ TickUpTo(MaxListClock)
  \/ \E r \in Sequential, numero \in {Num2025(<<"0", "0", "1">>),
                                      Num2025(<<"0", "0", "2">>)} :
       CreateStart(r, Admin, CreateBody(numero, None))
  \/ \E r \in Sequential : CreateDaoEnter(r)
  \/ \E r \in Sequential : CreateAlloc(r)
  \/ \E r \in Sequential : CreateSave(r)
  \/ \E r \in Sequential : CreateNotify(r, "none")
  \/ \E r \in Sequential, id \in IdParams :
       UpdateStart(r, Admin, id, [EmptyUpdate EXCEPT !.objetDossier = <<"p">>])
  \/ \E r \in Sequential : UpdateLoad(r)
  \/ \E r \in Sequential : UpdatePersist(r)
  \/ \E r \in Sequential : UpdateNotify(r, "none")
  \/ \E r \in Sequential, id \in IdParams : RenameStart(r, Admin, id, 1, <<"z">>)
  \/ \E r \in Sequential : RenameLoad(r)
  \/ \E r \in Sequential : RenamePersist(r)
  \/ \E r \in Sequential : RenameNotify(r, "none")
  \/ \E r \in Sequential : GetAll(r)
  \/ \E r \in Sequential : Finish(r)

SpecList == Init /\ [][NextList]_vars

\* ------------------------------------------------------------- supplied numbers
\* creates that send the ...001 sentinel, a number of their own, and a number
\* of the year 2001
NextSentinel ==
  \/ \E ok \in BOOLEAN : TryConnect(ok)
  \/ Tick
  \/ \E r \in Sequential,
        numero \in { Num2025(<<"0", "0", "1">>), Num2025(<<"0", "0", "4">>),
                     <<"D", "A", "O", "-", "2", "0", "0", "1", "-", "0", "0", "5">> } :
       CreateStart(r, Admin, CreateBody(numero, None))
  \/ \E r \in Sequential : CreateDaoEnter(r)
  \/ \E r \in Sequential : CreateAlloc(r)
  \/ \E r \in Sequential : CreateSave(r)
  \/ \E r \in Sequential, fail \in FailPoints : CreateNotify(r, fail)
  \/ \E r \in Sequential : Finish(r)

SpecSentinel == Init /\ [][NextSentinel]_vars

\* ------------------------------------------------------------- team changes
\* a member of the given id, name and role, without an address
Member(id, name, role) ==
  [id |-> id, name |-> name, role |-> role, email |-> "undefined"]

\* the teams PUT /api/dao/:id sends: the team of the create body; one that
\* changes the role of m1 and adds m2 and m3; one that adds m4, changes the
\* role of m2, keeps m3 and drops m1
Teams ==
  { Team1,
    << Member(<<"m", "1">>, <<"A">>, "membre_equipe"),
       Member(<<"m", "2">>, <<"B">>, "chef_equipe"),
       Member(<<"m", "3">>, <<"C">>, "membre_equipe") >>,
    << Member(<<"m", "4">>, <<"D">>, "membre_equipe"),
       Member(<<"m", "2">>, <<"B">>, "membre_equipe"),
       Member(<<"m", "3">>, <<"C">>, "membre_equipe") >> }

NextTeam ==
  \/ \E ok \in BOOLEAN : TryConnect(ok)
  \/ \E r \in Sequential : Len(daos) = 0 /\ CreateStart(r, Admin, TemplateBody)
  \/ \E r \in Sequential : CreateDaoEnter(r)
  \/ \E r \in Sequential : CreateAlloc(r)
  \/ \E r \in Sequential : CreateSave(r)
  \/ \E r \in Sequential : CreateNotify(r, "none")
  \/ \E r \in Sequential, id \in IdParams, team \in Teams :
       UpdateStart(r, Admin, id, [EmptyUpdate EXCEPT !.equipe = Some(team)])
  \/ \E r \in Sequential : UpdateLoad(r)
  \/ \E r \in Sequential : UpdatePersist(r)
  \/ \E r \in Sequential, fail \in {"none", "users"} : UpdateNotify(r, fail)
  \/ \E r \in Sequential : Finish(r)

\* the team of one case file replaced again and again
SpecTeam == Init /\ [][NextTeam]_vars

\* ------------------------------------------------------------- team dialogs
DialogTypes == {"chef", "membres"}

NextUi ==
  \/ \E d \in DialogTypes \cup {"assign"} : OpenDialog(d)
  \/ \E type \in DialogTypes, user \in Users : addExistingMember(type, user)
  \/ \E type \in DialogTypes : addNewMember(type)
  \/ \E type \in DialogTypes, id \in Users \cup {"u1", "n1", "n2"} : removeMember(type, id)
  \/ \E type \in DialogTypes : TeamEditSave(type)
  \/ \E type \in DialogTypes : TeamEditCancel(type)
  \/ \E user \in Users, role \in {"chef_equipe", "membre_equipe"} : addMemberToTeam(user, role)
  \/ \E id \in Users \cup {"u1", "n1", "n2"} : removeMemberFromTeam(id)
  \/ AssignSave
  \/ AssignCancel

SpecUi == Init /\ [][NextUi]_vars

\* ------------------------------------------------------------- comment cache
NextComments ==
  \/ \E c \in Callers : GetCached(c)
  \/ \E c \in Callers : GetJoin(c)
  \/ \E c \in Callers : GetStart(c)
  \/ \E f \in FetchIds : ServerRead(f)
  \/ \E f \in FetchIds : FetchResolve(f)
  \/ \E f \in FetchIds : FetchReject(f)
  \/ CacheExpires
  \/ \E kind \in {"add", "update", "delete"} : MutateStart(kind)
  \/ ServerMutate
  \/ MutateResolve
  \/ MutateReject

SpecComments == Init /\ [][NextComments]_vars

\* ------------------------------------------------------------- secure fetch
\* the retryDelay options, in milliseconds
RetryDelays == {500, 1000}

NextFetch ==
  \/ \E useNativeFetch \in BOOLEAN, maxRetries \in 0..MaxRetries, retryDelay \in RetryDelays :
       FetchBegin(useNativeFetch, maxRetries, retryDelay)
  \/ FetchResponse
  \/ \E e \in Errors : FetchError(e)
  \/ RetryTimer

\* calls of SecureFetch.fetch one after the other; every attempt settles and
\* every timer fires
SpecFetch == Init /\ [][NextFetch]_vars /\ WF_vars(NextFetch)

\* every action of the model
Next ==
  \/ NextReorder
  \/ NextTasks
  \/ NextNumbering
  \/ NextCreate
  \/ NextMutations
  \/ NextAssign
  \/ NextUpdate
  \/ NextConnect
  \/ NextRace
  \/ NextMail
  \/ NextServer
  \/ NextList
  \/ NextSentinel
  \/ NextTeam
  \/ NextUi
  \/ NextComments
  \/ NextFetch

Spec == Init /\ [][Next]_vars

\* ------------------------------------------------------------- properties
\* number of positions of xs that hold x
Count(xs, x) == Cardinality({i \in 1..Len(xs) : xs[i] = x})

\* ys holds the elements of xs, each exactly as often
IsPermutation(xs, ys) ==
  /\ Len(xs) = Len(ys)
  /\ \A x \in Range(xs) \cup Range(ys) : Count(xs, x) = Count(ys, x)

\* request r is a reorder request whose write has been made
ReorderAccepted(r) ==
  /\ req[r].op = "reorder"
  /\ req[r].pc \in {"notify", "done"}
  /\ req[r].updated # None

\* C1: every accepted reorder request stores a permutation of the task list it
\* read (each task as often as before, fields unchanged), in the order of the
\* submitted taskIds.
C1_ReorderStoresPermutation ==
  \A r \in Requests :
    ReorderAccepted(r) =>
      /\ IsPermutation(req[r].dao[1].tasks, req[r].updated[1].tasks)
      /\ TaskIds(req[r].updated[1].tasks) = req[r].body[1]

\* the id list names an id that no task of the case file has
NamesUnknownId(taskIds, tasks) ==
  \E i \in 1..Len(taskIds) : \A k \in 1..Len(tasks) : tasks[k].id # taskIds[i]

\* the id list leaves out the id of a task of the case file, or has another length
OmitsTask(taskIds, tasks) ==
  \/ Len(taskIds) # Len(tasks)
  \/ \E k \in 1..Len(tasks) : \A i \in 1..Len(taskIds) : taskIds[i] # tasks[k].id

\* request r is answered 400 with this code in this step, nothing is written and
\* nothing is broadcast
RejectedHere(r, code) ==
  /\ req'[r].pc = "done"
  /\ req'[r].resp.status = 400
  /\ req'[r].resp.code = code
  /\ req'[r].events = <<>>
  /\ daos' = daos

\* C2 (amended): a reorder request for a stored case file whose id list is empty
\* or names an id that is not on the case file is answered 400 INVALID_TASK_IDS;
\* one whose ids are all on the case file but which omits an existing id or has
\* another length is answered 400 INCOMPLETE_TASK_LIST; in both cases nothing is
\* written and nothing is broadcast.
C2_RejectedReorder ==
  [][\A r \in Requests :
       /\ (req[r].pc = "idle" /\ req'[r].op = "reorder" /\ req'[r].body # None
           /\ req'[r].body = Some(<<>>))
            => RejectedHere(r, "INVALID_TASK_IDS")
       /\ (req[r].op = "reorder" /\ req[r].pc = "load" /\ req'[r].pc # "load"
           /\ getDaoById(req[r].id) # None)
            => LET tasks == getDaoById(req[r].id)[1].tasks
                   taskIds == req[r].body[1]
               IN /\ NamesUnknownId(taskIds, tasks)
                       => RejectedHere(r, "INVALID_TASK_IDS")
                  /\ (~NamesUnknownId(taskIds, tasks) /\ OmitsTask(taskIds, tasks))
                       => RejectedHere(r, "INCOMPLETE_TASK_LIST")
    ]_vars

\* C2 witness: a reorder request that left out a task was answered
\* INCOMPLETE_TASK_LIST
C2_Witness ==
  \E r \in Requests :
    /\ req[r].op = "reorder" /\ req[r].pc = "done"
    /\ req[r].resp.code = "INCOMPLETE_TASK_LIST"
    /\ req[r].dao # None
    /\ OmitsTask(req[r].body[1], req[r].dao[1].tasks)
    /\ req[r].updated = None

\* C2 as stated: every reorder request that omits an existing task id (or whose
\* count differs) is answered 400 INCOMPLETE_TASK_LIST, and every one naming an
\* id that is not on the case file 400 INVALID_TASK_IDS, nothing written or
\* broadcast.
C2_Original ==
  [][\A r \in Requests :
       (/\ req'[r].op = "reorder" /\ req'[r].body # None
        /\ req[r].pc \in {"idle", "load"} /\ req'[r].pc \notin {"idle", "load"}
        /\ getDaoById(req'[r].id) # None)
         => LET tasks == getDaoById(req'[r].id)[1].tasks
                taskIds == req'[r].body[1]
            IN /\ OmitsTask(taskIds, tasks)
                    => RejectedHere(r, "INCOMPLETE_TASK_LIST")
               /\ NamesUnknownId(taskIds, tasks)
                    => RejectedHere(r, "INVALID_TASK_IDS")
    ]_vars

\* request r is an add-task request that has built its new task
AddTaskBuilt(r) ==
  /\ req[r].op = "addTask"
  /\ req[r].pc \in {"persist", "notify", "done"}
  /\ req[r].task # None

\* id is one more than the largest id of tasks, 1 when there is none
OneAboveMax(id, tasks) ==
  /\ \A k \in 1..Len(tasks) : tasks[k].id < id
  /\ (id = 1 \/ \E k \in 1..Len(tasks) : tasks[k].id = id - 1)

\* C3 (amended): the id given to a newly added task is one plus the largest id
\* present just before the add (1 when the list is empty), so it is the id of no
\* task present at that time; it can be the id of a task deleted earlier.
C3_NewIdOneAboveMax ==
  \A r \in Requests :
    AddTaskBuilt(r) =>
      /\ OneAboveMax(req[r].task[1].id, req[r].dao[1].tasks)
      /\ \A k \in 1..Len(req[r].dao[1].tasks) :
           req[r].dao[1].tasks[k].id # req[r].task[1].id

\* C3 witness: a task was added after a task of the same case file had been
\* deleted
C3_Witness ==
  \E r \in Requests :
    /\ AddTaskBuilt(r) /\ req[r].pc = "done" /\ req[r].resp.status = 201
    /\ \E d \in deletedIds : d[1] = req[r].id
    /\ Len(req[r].dao[1].tasks) > 0

\* C3 as stated: the new id is one above the maximum and is never the id of a
\* previously deleted task of that case file.
C3_Original ==
  \A r \in Requests :
    AddTaskBuilt(r) =>
      /\ OneAboveMax(req[r].task[1].id, req[r].dao[1].tasks)
      /\ <<req[r].id, req[r].task[1].id>> \notin deletedIds

\* C4: whenever an update-task request sets isApplicable to false, the stored
\* progress of that task is null right after the update.
C4_InapplicableNullsProgress ==
  \A r \in Requests :
    (/\ req[r].op = "updateTask"
     /\ req[r].pc \in {"notify", "done"}
     /\ req[r].updated # None
     /\ req[r].body.isApplicable = Some(FALSE))
      => \A k \in 1..Len(req[r].updated[1].tasks) :
           req[r].updated[1].tasks[k].id = req[r].taskId
             => req[r].updated[1].tasks[k].progress = Null

\* C5: every stored task whose isApplicable is false has progress null.
C5_InapplicableHasNullProgress ==
  \A i \in 1..Len(daos) : \A k \in 1..Len(daos[i].tasks) :
    ~daos[i].tasks[k].isApplicable => daos[i].tasks[k].progress = Null

\* C6: no two stored case files have the same sequence number.
C6_UniqueSequenceNumbers ==
  \A i \in 1..Len(daos) : \A j \in 1..Len(daos) :
    i # j => daos[i].numeroListe # daos[j].numeroListe

\* request r is a create request that passed validation and has been answered
CreateAnswered(r) ==
  /\ req[r].op = "create" /\ req[r].pc = "done"
  /\ req[r].resp.code # "VALIDATION_ERROR"

\* C7: when create requests interleave and obtain the same sequence number, the
\* one that persists second is answered 400 DUPLICATE_NUMBER and stores nothing:
\* only one case file with that number is stored.
C7_DuplicateCaughtAtCreate ==
  /\ \A i \in 1..Len(daos) : \A j \in 1..Len(daos) :
       i # j => daos[i].numeroListe # daos[j].numeroListe
  /\ \A r \in Requests :
       (CreateAnswered(r) /\ req[r].updated = None)
         => /\ req[r].resp.status = 400
            /\ req[r].resp.code = "DUPLICATE_NUMBER"
            /\ \E i \in 1..Len(daos) : daos[i].numeroListe = req[r].data.numeroListe
  /\ \A r \in Requests :
       (CreateAnswered(r) /\ req[r].updated # None) => req[r].resp.status = 201

\* C7 witness: two create requests were both given the same allocated number;
\* one stored its case file, the other was answered DUPLICATE_NUMBER
C7_Witness ==
  \E r1 \in Requests : \E r2 \in Requests :
    /\ r1 # r2
    /\ CreateAnswered(r1) /\ CreateAnswered(r2)
    /\ Includes(req[r1].body.numeroListe, <<"0", "0", "1">>)
    /\ Includes(req[r2].body.numeroListe, <<"0", "0", "1">>)
    /\ req[r1].resp.status = 201
    /\ req[r2].resp.code = "DUPLICATE_NUMBER"
    /\ req[r1].updated[1].numeroListe = req[r2].data.numeroListe
    /\ Cardinality({i \in 1..Len(daos) :
                      daos[i].numeroListe = req[r2].data.numeroListe}) = 1

\* the digits after `DAO-${y}-` when s is that prefix followed by digits only
\* (<<>> otherwise)
DigitsAfterPrefix(s, y) ==
  IF /\ StartsWith(s, YearPrefix(y))
     /\ Len(s) > Len(YearPrefix(y))
     /\ AllDigits(SubSeq(s, Len(YearPrefix(y)) + 1, Len(s)))
  THEN SubSeq(s, Len(YearPrefix(y)) + 1, Len(s))
  ELSE <<>>

\* the number the claim describes: one above the largest suffix among the
\* numbers the predicate counts, 001 when there is none
NumberAfter(numbers, y, counts(_)) ==
  LET sfx == {ParseInt(DigitsAfterPrefix(numbers[i], y)) :
                i \in {k \in 1..Len(numbers) : counts(numbers[k])}}
  IN YearPrefix(y) \o
       PadStart(ToStr(IF sfx = {} THEN 1
                      ELSE (CHOOSE m \in sfx : \A n \in sfx : n <= m) + 1),
                3, "0")

\* reading 1: the pattern is PREFIX-YYYY-NNN, exactly three digits
ClaimedNextStrict(numbers, y) ==
  NumberAfter(numbers, y, LAMBDA s : Len(DigitsAfterPrefix(s, y)) = 3)

\* reading 2: the numeric suffix is every digit after the prefix
ClaimedNextNumeric(numbers, y) ==
  NumberAfter(numbers, y, LAMBDA s : DigitsAfterPrefix(s, y) # <<>>)

\* C8: GET /next-number answers PREFIX-Y- followed by one plus the largest
\* numeric suffix among the stored numbers with the prefix PREFIX-Y-, padded to
\* three digits, ignoring values that do not match the pattern (001 when there
\* is none), under either reading of "numeric suffix".
C8_NextNumberIsMaxPlusOne ==
  [][\A r \in Requests :
       (req[r].pc = "idle" /\ req'[r].op = "nextNumber")
         => req'[r].resp.nextNumber \in
              { ClaimedNextStrict(StoredNumbers, year),
                ClaimedNextNumeric(StoredNumbers, year) }
    ]_vars

\* C9: a create request with no tasks and no sequence number, when no case file
\* of the current year is stored, is accepted with sequence number
\* PREFIX-<year>-001 and the template's tasks in template order, each with
\* progress null and no comment.
C9_CreateWithoutNumber ==
  \A r \in Requests :
    (/\ req[r].op = "create" /\ req[r].pc = "done"
     /\ req[r].body.numeroListe = Undefined
     /\ req[r].body.tasks = None
     /\ \A i \in 1..Len(daos) : ~StartsWith(daos[i].numeroListe, YearPrefix(year)))
      => /\ req[r].resp.status = 201
         /\ req[r].resp.dao # None
         /\ req[r].resp.dao[1].numeroListe = YearPrefix(year) \o <<"0", "0", "1">>
         /\ Len(req[r].resp.dao[1].tasks) = Len(DEFAULT_TASKS)
         /\ \A k \in 1..Len(DEFAULT_TASKS) :
              /\ req[r].resp.dao[1].tasks[k].name = DEFAULT_TASKS[k].name
              /\ req[r].resp.dao[1].tasks[k].progress = Null
              /\ req[r].resp.dao[1].tasks[k].comment \in {Undefined, <<>>}

\* C10: once a mutation has been persisted, the request answers with its success
\* response carrying the persisted case file and the store keeps the mutation,
\* whichever collaborator fails while the request notifies.
C10_NotifyFailuresSwallowed ==
  [][\A r \in Requests :
       (req[r].pc = "notify" /\ req'[r].pc = "done" /\ req[r].updated # None)
         => /\ req'[r].resp.status \in {200, 201}
            /\ req'[r].resp.dao = req[r].updated
            /\ daos' = daos
    ]_vars

\* C10 witness: a persisted mutation was answered with success although the
\* notification service failed and nothing was broadcast
C10_Witness ==
  \E r \in Requests :
    /\ req[r].pc = "done" /\ req[r].updated # None
    /\ req[r].op = "updateTask"
    /\ req[r].fail = "notif" /\ req[r].events = <<>>
    /\ req[r].resp.status = 200
    /\ \E i \in 1..Len(daos) : daos[i] = req[r].updated[1]

\* the update-task request r has persisted a change of assignee from one member
\* to another
ReassignedBy(r) ==
  /\ req[r].op = "updateTask" /\ req[r].pc = "done"
  /\ req[r].updated # None
  /\ req[r].previous[1].assignedTo \notin {Undefined, <<>>}
  /\ req[r].task[1].assignedTo \notin {Undefined, <<>>}
  /\ req[r].previous[1].assignedTo # req[r].task[1].assignedTo

\* the entries of a change list that tell of an assignee
AssigneeEntries(changes) ==
  SelectSeq(changes, LAMBDA c : c.what \in {"assigned", "reassigned"})

\* C11: a task update that changes the assignee from member A to member B
\* produces a change list with a single reassignment entry (A to B) and, when
\* the notification service takes the broadcast, exactly one in-app event, of
\* kind task_assigned and referencing the task id; no task_updated event.
C11_ReassignmentEvent ==
  \A r \in Requests :
    ReassignedBy(r) =>
      /\ AssigneeEntries(TaskChanges(req[r].previous[1], req[r].task[1]))
           = <<Change("reassigned", <<>>, req[r].previous[1].assignedTo,
                      req[r].task[1].assignedTo)>>
      /\ req[r].fail # "notif" =>
           /\ Len(req[r].events) = 1
           /\ req[r].events[1].kind = "task_assigned"
           /\ req[r].events[1].taskId = req[r].taskId
           /\ req[r].events[1].daoId = req[r].id

\* C11 witness: task 1 went from member m1 to member m2 together with a progress
\* change, and one event was broadcast
C11_Witness ==
  \E r \in Requests :
    /\ ReassignedBy(r)
    /\ req[r].previous[1].assignedTo = <<"m", "1">>
    /\ req[r].task[1].assignedTo = <<"m", "2">>
    /\ req[r].body.progress = Some(50)
    /\ req[r].fail = "none"
    /\ Len(req[r].events) = 1

\* C12: diffing a state against itself yields an empty change list: for every
\* task x the task change lists computed from (x, x) are empty, and for every
\* case file x the header-field change list and the team change list computed
\* from (x, x) are empty.
C12_SelfDiffEmpty ==
  /\ \A i \in 1..Len(daos) :
       /\ ChangedFields(daos[i], daos[i]) = <<>>
       /\ TeamChanges(daos[i].equipe, daos[i].equipe) = <<>>
       /\ \A k \in 1..Len(daos[i].tasks) :
            /\ TaskChanges(daos[i].tasks[k], daos[i].tasks[k]) = <<>>
            /\ TaskDiffs(daos[i].tasks[k], daos[i].tasks[k]) = <<>>
  /\ \A team \in {Team1, Team2, Team1 \o Team2, Team2 \o Team1} :
       TeamChanges(team, team) = <<>>
  /\ \A l \in UpdateTaskLists : \A k \in 1..Len(l) :
       TaskChanges(l[k], l[k]) = <<>> /\ TaskDiffs(l[k], l[k]) = <<>>

\* C12 witness: a PUT /api/dao/:id that sent the stored team and the stored
\* tasks again was answered 200 and broadcast only the general event, with no
\* changed field
C12_Witness ==
  \E r \in Requests :
    /\ req[r].op = "update" /\ req[r].pc = "done" /\ req[r].updated # None
    /\ req[r].body.tasks # None /\ req[r].body.equipe # None
    /\ req[r].dao[1].tasks = req[r].updated[1].tasks
    /\ req[r].dao[1].equipe = req[r].updated[1].equipe
    /\ \E k \in 1..Len(req[r].updated[1].tasks) :
         req[r].updated[1].tasks[k].assignedTo = <<"m", "1">>
    /\ req[r].events = <<Event("dao_updated", req[r].updated[1].id, 0, <<>>)>>

\* C13: over any interleaving of storage calls the connection probe is
\* attempted at most once, and once it has failed the in-memory store serves
\* every later storage call: the mode never switches back and the probe is
\* never retried.
C13_ProbeOnceThenInMemory ==
  /\ [](Len(probes) <= 1)
  /\ []((\E i \in 1..Len(probes) : probes[i] = "failed") => useInMemory)
  /\ [][useInMemory => useInMemory' /\ probes' = probes]_vars

\* C13 witness: the probe has failed, an update is between its two storage
\* calls and a next-number storage call has been
\* answered
C13_Witness ==
  /\ probes = <<"failed">> /\ useInMemory
  /\ req[1].op = "update" /\ req[1].pc = "persist"
  /\ req[2].op = "nextNumber" /\ req[2].pc = "done"

\* request r has persisted its change of the case file it loaded
Persisted(r) ==
  /\ req[r].op \in {"update", "updateTask", "addTask"}
  /\ req[r].pc \in {"notify", "done"}
  /\ req[r].dao # None /\ req[r].updated # None

\* the case file d after the write of request r: updateDao(id, updates) with
\* the updates r had built from what it loaded
WrittenOver(d, r) ==
  [MergeDao(d, IF req[r].op = "update" THEN req[r].data ELSE TasksUpdate(req[r].data))
     EXCEPT !.updatedAt = now]

\* request `last` persists in this step; request `first` loaded the same state
\* of the same case file and its write is what is stored now
SecondWrite(first, last) ==
  /\ first # last
  /\ req[last].op \in {"update", "updateTask", "addTask"}
  /\ req[last].pc = "persist" /\ req'[last].pc = "notify"
  /\ Persisted(first)
  /\ req[first].id = req[last].id
  /\ req[first].dao = req[last].dao
  /\ findIndexById(req[last].id) # 0
  /\ req[first].updated[1] = daos[findIndexById(req[last].id)]

Succeeded(r) == req[r].resp.status \in {200, 201}

\* C14 as stated: after two interleaved writers the stored case file is the
\* state written by the last persister alone, the other writer's change absent
C14_Original ==
  [][\A first, last \in Requests :
       SecondWrite(first, last) =>
         daos'[findIndexById(req[last].id)] = WrittenOver(req[last].dao[1], last)]_vars

\* C14 (amended): when two requests on one case file both load it before
\* either persists, both are answered with success and the stored case file
\* holds, for every field the last persister wrote, the last persister's
\* value, and for every other field the earlier writer's; two writers of the
\* task list leave the last writer's list and the earlier task change is lost
C14_LastWriteWinsPerField ==
  /\ [][\A first, last \in Requests :
         SecondWrite(first, last) =>
           /\ daos'[findIndexById(req[last].id)] =
                WrittenOver([WrittenOver(req[last].dao[1], first)
                               EXCEPT !.updatedAt = req[first].updated[1].updatedAt],
                            last)
           /\ (req[first].op # "update" /\ req[last].op # "update") =>
                daos'[findIndexById(req[last].id)].tasks = req[last].data]_vars
  /\ [](\A r \in Requests : (Persisted(r) /\ req[r].pc = "done") => Succeeded(r))

\* both requests loaded the same state of the same case file and both wrote
Raced(a, b) ==
  /\ a # b /\ Persisted(a) /\ Persisted(b)
  /\ req[a].pc = "done" /\ req[b].pc = "done"
  /\ req[a].id = req[b].id
  /\ req[a].dao = req[b].dao
  /\ findIndexById(req[a].id) # 0

\* C14 witness: two task updates loaded the same case file; the progress
\* written by the first is gone after the second wrote its comment
C14_Witness ==
  \E a, b \in Requests :
    /\ Raced(a, b)
    /\ req[a].op = "updateTask" /\ req[a].taskId = 1
    /\ req[b].op = "updateTask" /\ req[b].taskId = 2
    /\ req[a].updated[1].tasks[1].progress = 50
    /\ daos[findIndexById(req[a].id)].tasks[1].progress = Null
    /\ daos[findIndexById(req[a].id)].tasks[2].comment = <<"c">>

\* the request in slot r carries input that passes its route's validation
PassedValidation(r) ==
  CASE req[r].op = "create" -> ValidCreate(req[r].body)
    [] req[r].op = "update" -> ValidUpdate(req[r].body)
    [] req[r].op = "addTask" -> ValidNewTask(req[r].body)
    [] req[r].op = "updateTask" ->
         ~InvalidTaskId(req[r].taskId) /\ ValidTaskUpdate(req[r].body)
    [] req[r].op = "deleteTask" -> ~InvalidTaskId(req[r].taskId)
    [] OTHER -> FALSE

\* what the request in slot r addresses is stored
TargetExists(r) ==
  /\ findIndexById(req[r].id) # 0
  /\ req[r].op \in {"updateTask", "deleteTask"} =>
       req[r].taskId \in Range(TaskIds(daos[findIndexById(req[r].id)].tasks))

\* the order of the steps of one request
StepOrder ==
  { <<"idle", "load">>, <<"idle", "createDao">>, <<"idle", "done">>,
    <<"createDao", "alloc">>, <<"createDao", "save">>, <<"createDao", "notify">>,
    <<"createDao", "done">>, <<"alloc", "save">>, <<"save", "notify">>,
    <<"save", "done">>, <<"load", "persist">>, <<"load", "done">>,
    <<"persist", "notify">>, <<"persist", "done">>, <<"notify", "done">>,
    <<"done", "idle">> }

\* C15: within one request the steps run in the order validate, load,
\* mutate, persist, diff, notify, respond: no storage write happens before
\* validation and the existence check have passed, no notification is
\* broadcast before the storage write has returned, and the success response
\* is sent only when the notification step has finished.
C15_StepOrder ==
  [][\A r \in Requests :
       /\ req'[r].pc # req[r].pc => <<req[r].pc, req'[r].pc>> \in StepOrder
       /\ (daos' # daos /\ req'[r] # req[r]) =>
            /\ PassedValidation(r)
            /\ req[r].pc \in {"persist", "createDao", "save"}
            /\ req[r].op # "create" => (TargetExists(r) /\ req[r].pc = "persist")
            /\ req'[r].events = <<>> /\ req'[r].resp = NoResp
       /\ req'[r].events # req[r].events /\ req'[r].events # <<>> =>
            /\ req[r].pc = "notify" /\ req[r].updated # None
            /\ \E i \in 1..Len(daos) : daos[i] = req[r].updated[1]
       /\ (req'[r].resp # req[r].resp /\ req'[r].resp.status \in {200, 201}
           /\ req'[r].op # "nextNumber") =>
            /\ req[r].pc = "notify" /\ req'[r].pc = "done"
            /\ daos' = daos
    ]_vars

\* C15 witness: a task update has been validated, found its task, written the
\* case file, broadcast its event and answered 200
C15_Witness ==
  \E r \in Requests :
    /\ req[r].op = "updateTask" /\ req[r].pc = "done"
    /\ req[r].resp.status = 200
    /\ req[r].previous # None /\ req[r].task # req[r].previous
    /\ Len(req[r].events) = 1
    /\ \E i \in 1..Len(daos) : daos[i] = req[r].updated[1]

\* the request in slot r takes the step that tells it whether its target is
\* stored: the step after getDaoById in the task routes, updateDao in
\* PUT /api/dao/:id
ChecksTarget(r) ==
  /\ req'[r].pc # req[r].pc
  /\ \/ req[r].op \in {"reorder", "addTask", "rename", "updateTask", "deleteTask"}
        /\ req[r].pc = "load"
     \/ req[r].op = "update" /\ req[r].pc = "persist"

MissingCaseFile(r) == \A i \in 1..Len(daos) : daos[i].id # req[r].id

MissingTask(r) ==
  /\ req[r].op \in {"rename", "updateTask", "deleteTask"}
  /\ \E i \in 1..Len(daos) :
       /\ daos[i].id = req[r].id
       /\ \A k \in 1..Len(daos[i].tasks) : daos[i].tasks[k].id # req[r].taskId

\* C16: a valid mutation request for a case-file id that is not stored is
\* answered 404 DAO_NOT_FOUND, one for a task id that is not on the case file
\* 404 TASK_NOT_FOUND; storage is unchanged and the request never reaches its
\* notification step.
C16_NotFound ==
  /\ [][\A r \in Requests :
         ChecksTarget(r) =>
           /\ MissingCaseFile(r) =>
                /\ req'[r].pc = "done"
                /\ req'[r].resp = ErrorResp(404, "DAO_NOT_FOUND")
                /\ req'[r].events = <<>> /\ daos' = daos
           /\ MissingTask(r) =>
                /\ req'[r].pc = "done"
                /\ req'[r].resp = ErrorResp(404, "TASK_NOT_FOUND")
                /\ req'[r].events = <<>> /\ daos' = daos]_vars
  /\ [](\A r \in Requests :
          req[r].resp.status = 404 =>
            req[r].events = <<>> /\ req[r].updated = None /\ req[r].fail = "none")

\* C16 witness: a request for a task that is not on a stored case file has
\* been answered 404 TASK_NOT_FOUND
C16_Witness ==
  \E r \in Requests :
    /\ req[r].pc = "done"
    /\ req[r].resp = ErrorResp(404, "TASK_NOT_FOUND")
    /\ \E i \in 1..Len(daos) :
         /\ daos[i].id = req[r].id
         /\ Len(daos[i].tasks) > 0
         /\ req[r].taskId \notin Range(TaskIds(daos[i].tasks))

\* the ids of the stored case files
StoredIds == {daos[i].id : i \in 1..Len(daos)}

HasMarkup(s) ==
  \E i, j \in 1..Len(s) : i < j /\ s[i] = "<" /\ s[j] = ">"

\* C18: after any accepted create, update-case-file, add-task, rename-task or
\* update-task request no free-text field of a stored case file (header
\* strings, member names, task names, task comments, assignee) contains a
\* markup-like substring <...>.
C18_NoStoredMarkup ==
  \A i \in 1..Len(daos) :
    /\ ~HasMarkup(daos[i].numeroListe)
    /\ ~HasMarkup(daos[i].objetDossier)
    /\ ~HasMarkup(daos[i].reference)
    /\ ~HasMarkup(daos[i].autoriteContractante)
    /\ \A m \in 1..Len(daos[i].equipe) : ~HasMarkup(daos[i].equipe[m].name)
    /\ \A k \in 1..Len(daos[i].tasks) :
         /\ ~HasMarkup(daos[i].tasks[k].name)
         /\ ~HasMarkup(daos[i].tasks[k].comment)
         /\ ~HasMarkup(daos[i].tasks[k].assignedTo)

\* the stored value of a header string: the request value sanitized when the
\* body has the field, the prior value otherwise
HeaderEffect(sent, prior) ==
  IF sent # Undefined THEN sanitizeString(sent) ELSE prior

\* the free-text fields of a task as sent, sanitized
TaskEffect(t) ==
  [id |-> t.id, name |-> sanitizeString(t.name), progress |-> t.progress,
   comment |-> sanitizeString(t.comment), isApplicable |-> t.isApplicable,
   assignedTo |-> sanitizeString(t.assignedTo)]

\* the fields of a stored task that a request body can carry
TaskSent(t) ==
  [id |-> t.id, name |-> t.name, progress |-> t.progress, comment |-> t.comment,
   isApplicable |-> t.isApplicable, assignedTo |-> t.assignedTo]

\* C19: PUT /api/dao/:id stores, for every field present in a valid body
\* (sequence number, subject, reference, contracting authority, submission
\* date, team, tasks), the request value sanitized, and keeps the prior value
\* of every field absent from the body.
C19_UpdateFrameEffect ==
  \A r \in Requests :
    (req[r].op = "update" /\ req[r].pc \in {"notify", "done"}
     /\ req[r].updated # None /\ req[r].dao # None) =>
      LET body == req[r].body
          prior == req[r].dao[1]
          stored == req[r].updated[1]
      IN /\ stored.numeroListe = HeaderEffect(body.numeroListe, prior.numeroListe)
         /\ stored.objetDossier = HeaderEffect(body.objetDossier, prior.objetDossier)
         /\ stored.reference = HeaderEffect(body.reference, prior.reference)
         /\ stored.autoriteContractante =
              HeaderEffect(body.autoriteContractante, prior.autoriteContractante)
         /\ stored.dateDepot =
              IF body.dateDepot # "undefined" THEN body.dateDepot ELSE prior.dateDepot
         /\ stored.equipe =
              IF body.equipe # None
              THEN [i \in 1..Len(body.equipe[1]) |->
                      [body.equipe[1][i] EXCEPT !.name = sanitizeString(@)]]
              ELSE prior.equipe
         /\ IF body.tasks # None
            THEN /\ Len(stored.tasks) = Len(body.tasks[1])
                 /\ \A k \in 1..Len(stored.tasks) :
                      TaskSent(stored.tasks[k]) = TaskEffect(body.tasks[1][k])
            ELSE stored.tasks = prior.tasks
         /\ \E i \in 1..Len(daos) : daos[i] = stored

\* a header field of the stored case file differs after the update
HeaderChanged(before, updated) ==
  \/ before.numeroListe # updated.numeroListe
  \/ before.objetDossier # updated.objetDossier
  \/ before.reference # updated.reference
  \/ before.autoriteContractante # updated.autoriteContractante
  \/ before.dateDepot # updated.dateDepot

\* the request in slot r broadcast an event of that kind
Raised(r, kind) == \E e \in 1..Len(req[r].events) : req[r].events[e].kind = kind

C21_UniqueTaskIds ==
  \A i \in 1..Len(daos) :
    \A k, l \in 1..Len(daos[i].tasks) :
      daos[i].tasks[k].id = daos[i].tasks[l].id => k = l

\* the addresses delivery was attempted to, in order
Attempted == [i \in 1..Len(mail.attempts) |-> mail.attempts[i].to]

\* C22: bulk email attempts delivery to each distinct non-empty address of
\* the recipient list exactly once; a failed delivery neither prevents the
\* attempts to the remaining addresses nor reaches the caller as an error.
C22_BulkEmailEachOnce ==
  /\ mail.pc \in {"idle", "sending", "returned"}
  /\ \A a \in Range(Attempted) :
       a \in Range(mail.toList) /\ a \notin Falsy /\ Count(Attempted, a) = 1
  /\ mail.pc = "returned" =>
       /\ \A i \in 1..Len(mail.toList) :
            mail.toList[i] \notin Falsy => Count(Attempted, mail.toList[i]) = 1
       /\ mail.sent = Len(mail.attempts)

\* C22 witness: a list of three entries, one of them a repeat or empty; the
\* first delivery failed, the second address was still tried and the call
\* returned
C22_Witness ==
  /\ mail.pc = "returned"
  /\ Len(mail.toList) = 3
  /\ Len(mail.attempts) = 2
  /\ ~mail.attempts[1].delivered

\* an accepted update-task request that changed the task's assignee
AssigneeChanged(r) ==
  /\ req[r].op = "updateTask" /\ req[r].pc = "done" /\ req[r].resp.status = 200
  /\ req[r].previous[1].assignedTo # req[r].task[1].assignedTo

\* the address the case file's team gives for the task's new assignee, if any
NewAssigneeAddresses(r) ==
  {AssigneeEmail(req[r].dao[1], req[r].task[1])} \ Falsy

\* C23 as stated: when a task update changes the assignee, email is sent only
\* to the new assignee (when the team resolves their address) and to no other
\* recipient.
C23_Original ==
  \A r \in Requests :
    AssigneeChanged(r) => Range(req[r].emails) \subseteq NewAssigneeAddresses(r)

\* C23 amended: when a task update changes the assignee, email is sent to the
\* new assignee (when the team resolves their address) and to the known users,
\* whom every task update mails, and to no other recipient; when no
\* collaborator fails, each of these addresses is mailed.
C23_AssigneeAndAllUsers ==
  \A r \in Requests :
    AssigneeChanged(r) =>
      /\ Range(req[r].emails) \subseteq
           NewAssigneeAddresses(r) \cup (Range(AllUserEmails) \ Falsy)
      /\ req[r].fail = "none" =>
           /\ NewAssigneeAddresses(r) \cup (Range(AllUserEmails) \ Falsy)
                \subseteq Range(req[r].emails)
           /\ NewAssigneeAddresses(r) # {} =>
                req[r].emails[1] \in NewAssigneeAddresses(r)

\* C23 witness: task 1 was assigned to m1, whose address the team gives; the
\* assignee was mailed first, then every known user
C23_Witness ==
  \E r \in Requests :
    /\ AssigneeChanged(r)
    /\ req[r].fail = "none"
    /\ req[r].task[1].assignedTo = <<"m", "1">>
    /\ req[r].emails = <<"a@x.io", "u@x.io", "a@x.io">>

\* C24: every error response of the HTTP API (any 4xx or 5xx status) has a
\* body carrying both a human-readable error string and a stable
\* machine-readable code string.
C24_ErrorBodies ==
  \A r \in Requests :
    req[r].pc = "done" /\ req[r].resp.status >= 400 =>
      /\ req[r].resp.error \notin Falsy
      /\ req[r].resp.code \notin Falsy

\* C25: no two stored case files ever share the same id, for any sequence
\* and timing of create requests, in in-memory and in document-backed mode
\* alike.
C25_UniqueIds ==
  \A i, j \in 1..Len(daos) : i # j => daos[i].id # daos[j].id

\* updatedAt never increases along the list
LatestFirst(xs) ==
  \A i, j \in 1..Len(xs) : i < j => xs[i].updatedAt >= xs[j].updatedAt

\* a finished GET /api/dao
Listed(r) == req[r].op = "list" /\ req[r].pc = "done"

\* C26: after any sequence of mutations, list() returns the stored case files
\* most-recently-updated first (non-increasing updatedAt), and no step that
\* changes a stored case file sets its updatedAt to a value earlier than its
\* previous one.
C26_ListLatestFirst ==
  /\ [](\A r \in Sequential :
          Listed(r) => /\ LatestFirst(req[r].resp.list)
                       /\ IsPermutation(req[r].resp.list, daos))
  /\ [][\A i \in 1..Len(daos) : daos'[i].updatedAt >= daos[i].updatedAt]_vars

\* C26 witness: two case files, the one stored first updated after the second
\* was created; the list returns it first
C26_Witness ==
  \E r \in Sequential :
    /\ Listed(r)
    /\ Len(daos) = 2
    /\ daos[1].updatedAt > daos[2].updatedAt
    /\ daos[2].updatedAt > daos[1].createdAt
    /\ req[r].resp.list = daos

\* the ...001 sentinel: a sequence number that ends in 001
IsSentinel(numero) ==
  Len(numero) >= 3 /\ SubSeq(numero, Len(numero) - 2, Len(numero)) = <<"0", "0", "1">>

\* C27: on create, the supplied sequence number is replaced by an
\* allocator-derived number exactly when none was supplied or the supplied one
\* is the ...001 sentinel; any other supplied sequence number is stored as
\* given.
C27_ReplacedExactlyWhenSentinel ==
  \A r \in Sequential :
    (req[r].op = "create" /\ req[r].pc \in {"notify", "done"} /\ req[r].updated # None)
      => LET given == sanitizeString(Trim(req[r].body.numeroListe))
             stored == req[r].updated[1].numeroListe
             before == SubSeq(StoredNumbers, 1, Len(daos) - 1)
         IN IF given = <<>> \/ IsSentinel(given)
            THEN stored = generateNextDaoNumber(before, year)
            ELSE stored = given

\* request r is an answered PUT /api/dao/:id that sent a team for a stored
\* case file
TeamSent(r) ==
  /\ req[r].op = "update" /\ req[r].pc = "done" /\ req[r].resp.status = 200
  /\ req[r].dao # None /\ req[r].body.equipe # None

\* the change list of the team event request r broadcast, empty if it
\* broadcast none
TeamChangeList(r) ==
  LET evs == SelectSeq(req[r].events, LAMBDA e : e.kind = "role_update")
  IN IF evs = <<>> THEN <<>> ELSE evs[1].changes

\* the member of the team with this id
MemberOf(team, id) == team[CHOOSE i \in 1..Len(team) : team[i].id = id]

\* what the claim expects of a change from the team old to the team new
ExpectedTeamChanges(old, new) ==
  LET ids(team) == {team[i].id : i \in 1..Len(team)}
      touched == SelectSeq(new, LAMBDA m :
                   \/ m.id \notin ids(old)
                   \/ MemberOf(old, m.id).role # m.role)
      left == SelectSeq(old, LAMBDA m : m.id \notin ids(new))
  IN [i \in 1..Len(touched) |->
        IF touched[i].id \notin ids(old)
        THEN Change("added", touched[i].name, <<>>, <<>>)
        ELSE Change("role", touched[i].name,
                    RoleText(MemberOf(old, touched[i].id).role),
                    RoleText(touched[i].role))]
     \o [i \in 1..Len(left) |-> Change("removed", left[i].name, <<>>, <<>>)]

\* C28: team change detection on update case file: the change list has
\* exactly one "added" entry per member id present only in the new team, one
\* "role changed from X to Y" entry per member id present in both teams with
\* a different role, one "removed" entry per member id present only in the
\* old team, and no entry for an unchanged member; additions and role changes
\* come first in new-team order, then removals in old-team order.
C28_TeamChangeList ==
  \A r \in Sequential :
    TeamSent(r) =>
      TeamChangeList(r) =
        ExpectedTeamChanges(req[r].dao[1].equipe, req[r].resp.dao[1].equipe)

\* C28 witness: m4 joined, m2 changed role, m3 stayed as it was and m1 left;
\* the list reports the three changes in that order
C28_Witness ==
  \E r \in Sequential :
    /\ TeamSent(r)
    /\ Len(req[r].dao[1].equipe) = 3
    /\ TeamChangeList(r) =
         << Change("added", <<"D">>, <<>>, <<>>),
            Change("role", <<"B">>, RoleText("chef_equipe"), RoleText("membre_equipe")),
            Change("removed", <<"A">>, <<>>, <<>>) >>

\* the changes of kind `what` that request r reported for a task, each with
\* the id of its task
TaskChangesReported(r, what) ==
  { <<req[r].events[i].taskId, req[r].events[i].changes[k]>> :
      <<i, k>> \in { p \in (1..Len(req[r].events)) \X (1..4) :
                      /\ req[r].events[p[1]].kind \in
                           {"task_updated", "task_assigned", "task_unassigned"}
                      /\ p[2] <= Len(req[r].events[p[1]].changes)
                      /\ req[r].events[p[1]].changes[p[2]].what = what } }

\* C29: task change detection reports a progress delta only if the task is
\* applicable (after the change) and the numeric progress value differs, in
\* the update-task endpoint and in the per-task diff of update case file.
C29_ProgressDeltaOnlyIfApplicable ==
  \A r \in Requests :
    (req[r].op \in {"update", "updateTask"} /\ req[r].pc = "done"
     /\ req[r].updated # None)
      => \A c \in TaskChangesReported(r, "progress") :
           /\ MapGet(req[r].updated[1].tasks, c[1]).isApplicable
           /\ c[2].from # c[2].to

\* no assignee: the field is missing or empty
Unassigned(task) == task.assignedTo = Undefined \/ task.assignedTo = <<>>

\* the assignee changes request r reported, each with the event that carries it
AssigneeReports(r) ==
  { <<req[r].events[p[1]], req[r].events[p[1]].changes[p[2]]>> :
      p \in { q \in (1..Len(req[r].events)) \X (1..4) :
                /\ req[r].events[q[1]].kind \in
                     {"task_updated", "task_assigned", "task_unassigned"}
                /\ q[2] <= Len(req[r].events[q[1]].changes)
                /\ req[r].events[q[1]].changes[q[2]].what \in
                     {"assigned", "unassigned", "reassigned"} } }

\* C30: task change detection distinguishes the three assignee transitions:
\* none to B is reported as "assigned", A to none as "unassigned" (by the
\* entry of the change list or by the kind of the event that carries it), and
\* A to B (A different from B) as "reassigned from A to B"; each transition
\* yields its own, distinct descriptor.
C30_AssigneeTransitions ==
  \A r \in Requests :
    (req[r].op \in {"update", "updateTask"} /\ req[r].pc = "done"
     /\ req[r].dao # None /\ req[r].updated # None)
      => \A c \in AssigneeReports(r) :
           LET prev == MapGet(req[r].dao[1].tasks, c[1].taskId)
               task == MapGet(req[r].updated[1].tasks, c[1].taskId)
           IN /\ (Unassigned(prev) /\ ~Unassigned(task)) =>
                   c[2].what = "assigned" /\ c[2].to = task.assignedTo
              /\ (~Unassigned(prev) /\ Unassigned(task)) =>
                   c[2].what = "unassigned" \/ c[1].kind = "task_unassigned"
              /\ (~Unassigned(prev) /\ ~Unassigned(task)) =>
                   /\ c[2].what = "reassigned"
                   /\ c[2].from = prev.assignedTo /\ c[2].to = task.assignedTo

\* request r makes the write of an accepted request of this route in this step
Writes(r, op) ==
  /\ req[r].op = op /\ req[r].pc = "persist"
  /\ req'[r].pc = "notify" /\ req'[r].updated # None

\* C31: add task: after an accepted add-task request the stored task list is
\* the previous list, unchanged and in the same order, followed by the new
\* task as its last element; the new task's progress is null unless it is
\* applicable and it is stamped with the acting user's id.
C31_AddTaskAppends ==
  [][\A r \in Requests :
       Writes(r, "addTask") =>
         LET k == findIndexById(req[r].id)
             old == daos[k].tasks
             new == daos'[k].tasks
         IN /\ Len(new) = Len(old) + 1
            /\ SubSeq(new, 1, Len(old)) = old
            /\ new[Len(new)].name = sanitizeString(Trim(req[r].body.name))
            /\ (new[Len(new)].progress # Null => new[Len(new)].isApplicable)
            /\ new[Len(new)].lastUpdatedBy = req[r].actor
            /\ req'[r].updated[1].tasks = new
    ]_vars

\* C31 witness: a task sent as not applicable with progress 50 was added behind
\* two stored tasks, with progress null
C31_Witness ==
  \E r \in Requests :
    /\ req[r].op = "addTask" /\ req[r].pc = "done" /\ req[r].resp.status = 201
    /\ ~req[r].body.isApplicable /\ req[r].body.progress = 50
    /\ Len(req[r].dao[1].tasks) = 2
    /\ Len(daos[findIndexById(req[r].id)].tasks) = 3
    /\ daos[findIndexById(req[r].id)].tasks[3].progress = Null
    /\ daos[findIndexById(req[r].id)].tasks[3].lastUpdatedBy = req[r].actor

\* C32: delete task: an accepted request removes exactly one task, the one
\* with the requested id, leaves all other tasks unchanged and in their
\* previous relative order, and its response carries the removed task's id
\* and name together with the updated case file.
C32_DeleteTaskRemovesOne ==
  [][\A r \in Requests :
       /\ Writes(r, "deleteTask") =>
            LET k == findIndexById(req[r].id)
                old == daos[k].tasks
                new == daos'[k].tasks
            IN /\ Len(new) = Len(old) - 1
               /\ \E i \in 1..Len(old) :
                    /\ old[i].id = req[r].taskId
                    /\ new = RemoveAt(old, i)
                    /\ req[r].task = Some(old[i])
               /\ req'[r].updated[1].tasks = new
       /\ (req[r].op = "deleteTask" /\ req[r].pc = "notify" /\ req[r].updated # None
           /\ req'[r].pc = "done") =>
            /\ req'[r].resp.status = 200
            /\ req'[r].resp.deletedTask # None
            /\ req'[r].resp.deletedTask[1].id = req[r].taskId
            /\ req'[r].resp.deletedTask[1].name = req[r].task[1].name
            /\ req'[r].resp.dao = Some(daos[findIndexById(req[r].id)])
    ]_vars

\* C32 witness: the middle one of three tasks was deleted; the two others are
\* stored as they were, in their order, and the response names the deleted one
C32_Witness ==
  \E r \in Requests :
    /\ req[r].op = "deleteTask" /\ req[r].pc = "done" /\ req[r].resp.status = 200
    /\ Len(req[r].dao[1].tasks) = 3
    /\ req[r].dao[1].tasks[2].id = req[r].taskId
    /\ daos[findIndexById(req[r].id)].tasks
         = <<req[r].dao[1].tasks[1], req[r].dao[1].tasks[3]>>
    /\ req[r].resp.deletedTask[1].id = req[r].taskId

\* the task without its last-actor and last-modified stamps
Unstamped(task) == [task EXCEPT !.lastUpdatedBy = NoActor, !.lastUpdatedAt = NoTime]

\* new is old but for the fields the body of an update-task request holds
OnlySentFields(old, new, body) ==
  /\ new.id = old.id /\ new.name = old.name
  /\ (body.progress = None => new.progress = old.progress)
  /\ (body.comment = Undefined => new.comment = old.comment)
  /\ (body.isApplicable = None => new.isApplicable = old.isApplicable)
  /\ (body.assignedTo = Undefined => new.assignedTo = old.assignedTo)

\* C33: rename task and update task fields on task k change, on task k, only
\* the fields present in the request (name; or progress, comment,
\* applicability, assignee) plus the last-actor and last-modified stamps, and
\* leave every other task, the task order, the team and the header fields of
\* the case file unchanged.
C33_TaskFrame ==
  [][\A r \in Requests :
       (Writes(r, "rename") \/ Writes(r, "updateTask")) =>
         LET d == findIndexById(req[r].id)
             old == daos[d].tasks
             new == daos'[d].tasks
             k == TaskIndex(old, req[r].taskId)
         IN /\ Len(daos') = Len(daos)
            /\ \A j \in 1..Len(daos) : j # d => daos'[j] = daos[j]
            /\ [daos'[d] EXCEPT !.tasks = old, !.updatedAt = daos[d].updatedAt] = daos[d]
            /\ Len(new) = Len(old)
            /\ k # 0
            /\ \A i \in 1..Len(old) : i # k => new[i] = old[i]
            /\ IF req[r].op = "rename"
               THEN Unstamped([new[k] EXCEPT !.name = old[k].name]) = Unstamped(old[k])
               ELSE OnlySentFields(old[k], new[k], req[r].body)
    ]_vars

\* C33 witness: an update-task request that sent only a progress changed the
\* progress and the stamps of task 2 of two tasks and nothing else
C33_Witness ==
  \E r \in Requests :
    /\ req[r].op = "updateTask" /\ req[r].pc = "done" /\ req[r].resp.status = 200
    /\ req[r].body.progress # None /\ req[r].body.comment = Undefined
    /\ Len(req[r].dao[1].tasks) >= 2
    /\ req[r].task[1].progress # req[r].previous[1].progress
    /\ daos[findIndexById(req[r].id)].tasks
         = [req[r].dao[1].tasks EXCEPT ![TaskIndex(req[r].dao[1].tasks, req[r].taskId)]
              = req[r].task[1]]

\* the kind of the notification each of these routes broadcasts
KindOf(op) ==
  CASE op = "create" -> "dao_created"
    [] op = "addTask" -> "task_created"
    [] op = "rename" -> "task_updated"
    [] op = "deleteTask" -> "task_deleted"
    [] op = "reorder" -> "task_reordered"

\* request r of one of these routes has been answered
Answered(r) ==
  /\ req[r].op \in {"create", "addTask", "rename", "deleteTask", "reorder"}
  /\ req[r].pc = "done"

\* C34: each successful create, add-task, rename-task, delete-task and
\* reorder request broadcasts exactly one in-app notification, of kind
\* dao_created, task_created, task_updated, task_deleted and task_reordered
\* respectively, whose payload references the affected case-file id (and the
\* task id for the operations on one task); a rejected request broadcasts
\* none. A broadcast counts where the notification service accepts it.
C34_OneNotification ==
  \A r \in Requests :
    Answered(r) =>
      IF req[r].resp.status >= 400 THEN req[r].events = <<>>
      ELSE req[r].fail # "notif" =>
             /\ Len(req[r].events) = 1
             /\ req[r].events[1].kind = KindOf(req[r].op)
             /\ req[r].events[1].daoId = req[r].resp.dao[1].id
             /\ req[r].op \in {"addTask", "rename", "deleteTask"} =>
                  req[r].events[1].taskId = req[r].task[1].id

\* C34 witness: a delete-task request was answered 200 while the mail
\* transport failed; it broadcast one task_deleted event for its task
C34_Witness ==
  \E r \in Requests :
    /\ Answered(r) /\ req[r].op = "deleteTask" /\ req[r].resp.status = 200
    /\ req[r].fail = "mail"
    /\ Len(req[r].events) = 1
    /\ req[r].events[1].kind = "task_deleted"
    /\ req[r].events[1].taskId = req[r].taskId

\* C35: starting from a team with at most one member of role chef_equipe,
\* every team a dialog passes on at save has at most one member of role
\* chef_equipe
C35_AtMostOneLead ==
  Chefs(client.ui.passed) <= 1

\* C36: a getDaoById call is served by the document backend only after the
\* connection probe has completed successfully (so not while a probe that
\* then fails is in flight), and no two calls are served by different
\* backends
C36_ConsistentBackend ==
  /\ \A r \in Requests :
       req[r].backend = "document" => probes = <<"connected">>
  /\ \A r1, r2 \in Requests :
       req[r1].backend # "none" /\ req[r2].backend # "none"
         => req[r1].backend = req[r2].backend

\* C37: in every reachable state the sequence number nextNumber returns for
\* the current year differs from every stored sequence number
C37_NextNumberUnused ==
  \A i \in 1..Len(daos) :
    daos[i].numeroListe # generateNextDaoNumber(StoredNumbers, year)

\* C38: a getDaoComments call made after a comment mutation has resolved
\* never returns a comment list the server had read before that mutation
\* was applied
C38_NoListFromBeforeMutation ==
  \A c \in Callers :
    client.comments.calls[c].pc = "done"
      => client.comments.calls[c].data >= client.comments.calls[c].need

\* the call of SecureFetch.fetch has returned a response or thrown
Settled == client.secureFetch.pc \in {"returned", "thrown"}

\* the numbers of the attempts made so far that failed
Failed == 1..Len(client.secureFetch.failures)

\* attempt i failed with a network error that is neither a realm shutdown nor
\* an interception
NetworkError(i) ==
  LET e == client.secureFetch.failures[i]
  IN  e.network /\ ~e.scope /\ ~e.intercepted

====
